---- MODULE Spec2Model ----
(***************************************************************************)
(* FeeWhisperer: the event scanner (EventScanner), its progress record     *)
(* (ScanProgress), the event collection (FeeEvent with its unique index on *)
(* (transactionHash, logIndex)) and the remote chain (FeeCollectorService, *)
(* BlockchainUtils), as a state machine.                                   *)
(*                                                                         *)
(* The database (scanProgress, feeEvents) is durable; everything else is   *)
(* the memory of one Node.js process and is lost by Crash.  One call of    *)
(* scanForNewEvents is an activation record call[c]; its pc is the await   *)
(* it is suspended at.  Callers are start() (its two awaited scans), the   *)
(* setInterval callback and a direct call of the public method.            *)
(***************************************************************************)
EXTENDS Integers, Sequences, FiniteSets, Bags, TLC

VARIABLES
    batchSize,      \* scannerConfig.batchSize
    maxRetries,     \* scannerConfig.maxRetries
    scanProgress,   \* the ScanProgress document of this chain, or NoDoc
    feeEvents,      \* the feeevents collection: a bag of stored records
    isScanning,     \* EventScanner.isScanning
    scanInterval,   \* EventScanner.scanInterval is set
    startPc,        \* where start() is
    call,           \* the activations of scanForNewEvents, one per caller
    stopped,        \* stop() has been called on this instance
    stats,          \* the activation of EventScanner.getStats
    peer,           \* scanForNewEvents of a second scanner process on the
                    \* same database
    limiter,        \* the rate limiting middleware of /api and its clock
    api,            \* the events API: the collection it reads, the request
                    \* being served and the response
    decoding,       \* scanBatch seen with the timestamps of its events: the
                    \* entries fetched, which getBlock calls succeed, the
                    \* clock, and the events decoded
    initializing,   \* initializeScanProgress of several scanner instances on
                    \* one scanprogresses collection: where each call is, and
                    \* the documents of this chain in the collection
    timers          \* the interval timers of one scanner instance: where each
                    \* start() call is, the handle held in this.scanInterval,
                    \* and the timers of the runtime that are still active

\* what scanning, start() and stop() do not touch
http == <<limiter, api>>
outside == <<stats, peer, http, decoding, initializing, timers>>

vars == <<batchSize, maxRetries, scanProgress, feeEvents, isScanning,
          scanInterval, startPc, call, stopped, outside>>

config == <<batchSize, maxRetries>>
durable == <<scanProgress, feeEvents>>

----------------------------------------------------------------------------
(* Bounds of the model *)

StartBlock == 1
MaxBlock == 3
MaxBatchSize == 2
MaxRetriesCfg == 2
MaxTime == 1
MaxRateLimit == 2
MaxTicks == 4
MaxSent == 6
MaxPageAsked == 3
MaxLimitAsked == 3
MaxQueryBlock == 3
MaxBackoffRetries == 4
MaxInstances == 3

\* start() calls on one instance that may overlap
MaxStartCalls == 2

\* timers one instance installs in all
MaxTimers == 3

\* the least SCAN_BATCH_SIZE considered where any integer is configured
MinBatchSize == 0

(* Program constants *)

RetryDelayMs == 1000
BatchDelayMs == 500
HeightMaxRetries == 3
DuplicateKeyCode == 11000
OtherErrorCode == 1
WindowMs == 60000
DefaultLimit == 50
LimitCap == 100
TickMs == 20000

Callers == {"start", "timer", "direct"}
BatchSizes == 1..MaxBatchSize
RetryCounts == 0..MaxRetriesCfg
Heights == (StartBlock - 1)..MaxBlock
Times == 0..MaxTime
ClientIps == {"10.0.0.1", "10.0.0.2"}

NoDoc == [none |-> TRUE]

Min(a, b) == IF a <= b THEN a ELSE b
Max(a, b) == IF a >= b THEN a ELSE b

RECURSIVE Pow2(_)
Pow2(n) == IF n <= 0 THEN 1 ELSE 2 * Pow2(n - 1)

----------------------------------------------------------------------------
(* The remote chain *)

\* The log entries the contract emitted in block b, in log order.  decodes
\* is whether parseLog succeeds and both indexed arguments are present.
LogsOfBlock(b) ==
    CASE b % 4 = 1 -> << [transactionHash |-> b, logIndex |-> 0, blockNumber |-> b, decodes |-> TRUE],
                         [transactionHash |-> b, logIndex |-> 1, blockNumber |-> b, decodes |-> FALSE],
                         [transactionHash |-> b, logIndex |-> 2, blockNumber |-> b, decodes |-> TRUE] >>
      [] b % 4 = 2 -> << [transactionHash |-> b, logIndex |-> 0, blockNumber |-> b, decodes |-> FALSE] >>
      [] b % 4 = 3 -> << >>
      [] OTHER     -> << [transactionHash |-> b, logIndex |-> 0, blockNumber |-> b, decodes |-> TRUE] >>

\* contract.queryFilter(filter, fromBlock, toBlock)
RECURSIVE queryFilter(_, _)
queryFilter(fromBlock, toBlock) ==
    IF fromBlock > toBlock THEN << >>
    ELSE LogsOfBlock(fromBlock) \o queryFilter(fromBlock + 1, toBlock)

\* decoding that gives up the whole list when one entry fails to parse
parseAllOrNothing(events) ==
    IF \E i \in 1..Len(events) : ~events[i].decodes THEN << >>
    ELSE [i \in 1..Len(events) |->
            [transactionHash |-> events[i].transactionHash,
             logIndex |-> events[i].logIndex,
             blockNumber |-> events[i].blockNumber]]

\* FeeCollectorService.parseFeeCollectorEvents: an entry that fails to parse
\* is skipped, the others are kept in order
RECURSIVE parseFeeCollectorEvents(_)
parseFeeCollectorEvents(events) ==
    IF events = << >> THEN << >>
    ELSE LET e == Head(events)
             rest == parseFeeCollectorEvents(Tail(events))
         IN IF e.decodes
            THEN << [transactionHash |-> e.transactionHash,
                     logIndex |-> e.logIndex,
                     blockNumber |-> e.blockNumber] >> \o rest
            ELSE rest

----------------------------------------------------------------------------
(* The feeevents collection *)

\* the unique index { transactionHash: 1, logIndex: 1 }
KeyOf(doc) == <<doc.transactionHash, doc.logIndex>>

HasKey(coll, k) == \E d \in BagToSet(coll) : KeyOf(d) = k

\* the collection without its unique index
NoUniqueIndex(coll, doc) == FALSE

UniqueIndexRejects(coll, doc) == HasKey(coll, KeyOf(doc))

\* insertMany as with { ordered: true }: the first write error ends the call
RECURSIVE insertManyOrdered(_, _)
insertManyOrdered(coll, docs) ==
    IF docs = << >> THEN [coll |-> coll, writeErrors |-> 0]
    ELSE LET d == Head(docs)
         IN IF HasKey(coll, KeyOf(d))
            THEN [coll |-> coll, writeErrors |-> 1]
            ELSE insertManyOrdered(coll (+) SetToBag({d}), Tail(docs))

\* FeeEventModel.insertMany(docs, { ordered: false }): every document is
\* tried; one that collides with the unique index is a write error (code
\* 11000) and the others are still inserted
RECURSIVE insertMany(_, _)
insertMany(coll, docs) ==
    IF docs = << >> THEN [coll |-> coll, writeErrors |-> 0]
    ELSE LET d == Head(docs)
         IN IF UniqueIndexRejects(coll, d)
            THEN LET r == insertMany(coll, Tail(docs))
                 IN [coll |-> r.coll, writeErrors |-> r.writeErrors + 1]
            ELSE insertMany(coll (+) SetToBag({d}), Tail(docs))

\* the documents of docs at the positions in S, in order
RECURSIVE Pick(_, _, _)
Pick(docs, S, i) ==
    IF i > Len(docs) THEN << >>
    ELSE (IF i \in S THEN << docs[i] >> ELSE << >>) \o Pick(docs, S, i + 1)

----------------------------------------------------------------------------
(* The ScanProgress document *)

\* the seed taken at the start block itself instead of one before it
SeedAtStartBlock(date) ==
    [lastScannedBlock |-> StartBlock,
     lastScanTime |-> date,
     totalEventsFound |-> 0,
     totalBlocksScanned |-> 0]

\* ScanProgressModel.create({...}) in initializeScanProgress; date is what
\* new Date() returns
SeedProgress(date) ==
    [lastScannedBlock |-> StartBlock - 1,
     lastScanTime |-> date,
     totalEventsFound |-> 0,
     totalBlocksScanned |-> 0]

\* ScanProgress.updateProgress; date is what new Date() returns
updateProgress(p, lastBlock, eventsCount, blocksScanned, date) ==
    [lastScannedBlock |-> Max(p.lastScannedBlock, lastBlock),
     lastScanTime |-> date,
     totalEventsFound |-> p.totalEventsFound + eventsCount,
     totalBlocksScanned |-> p.totalBlocksScanned + blocksScanned]

----------------------------------------------------------------------------
(* One activation of scanForNewEvents *)

\* chainConfig.name.toLowerCase(): the chain of the progress record
ChainName == "polygon"

\* getStats with the two counters exchanged
getStatsSwapped(p) ==
    [chain |-> ChainName,
     lastScannedBlock |-> p.lastScannedBlock,
     totalEvents |-> p.totalBlocksScanned,
     totalBlocks |-> p.totalEventsFound,
     lastScan |-> p.lastScanTime]

\* ScanProgress.getStats
getStats(p) ==
    [chain |-> ChainName,
     lastScannedBlock |-> p.lastScannedBlock,
     totalEvents |-> p.totalEventsFound,
     totalBlocks |-> p.totalBlocksScanned,
     lastScan |-> p.lastScanTime]

\* EventScanner.getStats not running
IdleStats == [pc |-> "idle", result |-> NoDoc]

\* createRateLimit: maxRequests from API_RATE_LIMIT, an empty Map of clients.
\* now is Date.now(); passed lists, per client, the times of the requests
\* handed to next(), rejected counts the 429 answers.
NewLimiter(maxRequests) ==
    [maxRequests |-> maxRequests,
     now |-> 0,
     clients |-> [ip \in ClientIps |-> NoDoc],
     passed |-> [ip \in ClientIps |-> << >>],
     rejected |-> [ip \in ClientIps |-> 0]]

\* the scanner instances that share the database
Instances == 1..MaxInstances

\* no instance is in initializeScanProgress and the collection has no
\* document of this chain
NotInitializing == [pc |-> [i \in Instances |-> "idle"], records |-> << >>]

\* the start() calls made on one scanner instance
StartCalls == 1..MaxStartCalls

\* a scanner just constructed: start() not called, this.scanInterval
\* undefined (0), no timer installed
NoTimers ==
    [pc |-> [s \in StartCalls |-> "idle"], handle |-> 0, active |-> {},
     created |-> 0]

\* no batch is being decoded
IdleDecoding ==
    [pc |-> "idle", events |-> << >>, blockOk |-> << >>, clock |-> << >>,
     parsedEvents |-> << >>]

\* the second process is not scanning
IdlePeer ==
    [pc |-> "idle", progress |-> NoDoc, currentBlock |-> 0, fromBlock |-> 0,
     toBlock |-> 0]

IdleCall ==
    [pc |-> "idle", outcome |-> "none", progress |-> NoDoc, p0 |-> 0,
     currentBlock |-> 0, fromBlock |-> 0, toBlock |-> 0,
     inRetry |-> FALSE, attempt |-> 0,
     events |-> << >>, parsedEvents |-> << >>,
     duplicates |-> 0, fetched |-> << >>, heightAttempt |-> 0,
     failed |-> "no", exhausted |-> FALSE, lastDelay |-> 0]

\* the awaits inside the try block of scanForNewEvents
ActivePcs == {"getProgress", "getHeight", "fetch", "parse", "store", "save",
              "delay", "retryWait"}

InFlight(c) == call[c].pc \in ActivePcs

\* the promise settles: return or throw, through the finally block
Settle(r, outcome) ==
    [r EXCEPT !.pc = "done", !.outcome = outcome, !.progress = NoDoc,
              !.events = << >>, !.parsedEvents = << >>, !.duplicates = 0,
              !.inRetry = FALSE, !.attempt = 0]

\* the loop head with toBlock = fromBlock + batchSize
LoopHeadLongBatch(r) ==
    IF r.fromBlock <= r.currentBlock
    THEN [r EXCEPT !.toBlock = Min(r.fromBlock + batchSize, r.currentBlock),
                   !.inRetry = FALSE, !.attempt = 0, !.events = << >>,
                   !.parsedEvents = << >>, !.duplicates = 0, !.pc = "fetch"]
    ELSE [r EXCEPT !.pc = "done", !.outcome = "ok", !.progress = NoDoc,
                   !.events = << >>, !.parsedEvents = << >>, !.duplicates = 0,
                   !.inRetry = FALSE, !.attempt = 0]

\* the loop head with toBlock not capped at currentBlock
LoopHeadPastHeight(r) ==
    IF r.fromBlock <= r.currentBlock
    THEN [r EXCEPT !.toBlock = r.fromBlock + batchSize - 1,
                   !.inRetry = FALSE, !.attempt = 0, !.events = << >>,
                   !.parsedEvents = << >>, !.duplicates = 0, !.pc = "fetch"]
    ELSE Settle(r, "ok")

\* the head of the while loop, with r.fromBlock set
LoopHead(r) ==
    IF r.fromBlock <= r.currentBlock
    THEN [r EXCEPT !.toBlock = Min(r.fromBlock + batchSize - 1, r.currentBlock),
                   !.inRetry = FALSE, !.attempt = 0, !.events = << >>,
                   !.parsedEvents = << >>, !.duplicates = 0, !.pc = "fetch"]
    ELSE Settle(r, "ok")

\* scanForNewEvents without its guard
NoScanGuard == FALSE

\* the guard at the top of scanForNewEvents
ScanGuard == isScanning

\* the up-to-date test after the height is known
UpToDate(p, currentBlock) == p.lastScannedBlock >= currentBlock

\* the first block taken to be the last scanned one
FirstBlockRescans(p) == p.lastScannedBlock

\* let fromBlock = progress.lastScannedBlock + 1
FirstBlock(p) == p.lastScannedBlock + 1

\* the same delay after every failed attempt
BackoffDelayFixed(attempt) == RetryDelayMs

\* the delay retryWithBackoff waits after failed attempt number attempt
BackoffDelay(attempt) == RetryDelayMs * Pow2(attempt - 1)

\* the ranges requested from the remote, each listed once (a retry asks for
\* the range it retries)
NoteFetch(fetched, range) ==
    IF fetched # << >> /\ fetched[Len(fetched)] = range THEN fetched
    ELSE Append(fetched, range)

\* a catch block that goes on to the next batch without any retry
EnterRetrySkips(r) ==
    LoopHead([r EXCEPT !.fromBlock = r.toBlock + 1, !.exhausted = TRUE])

\* retryWithBackoff: the loop for (attempt = 1; attempt <= maxRetries; ...)
\* around the retried operation, entered with the first attempt
EnterRetry(r) ==
    IF 1 <= maxRetries
    THEN [r EXCEPT !.inRetry = TRUE, !.attempt = 1, !.events = << >>,
                   !.parsedEvents = << >>, !.duplicates = 0, !.pc = "fetch"]
    ELSE LoopHead([r EXCEPT !.fromBlock = r.toBlock + 1, !.exhausted = TRUE])

\* a rejected await inside the retried operation
RetryFailed(r) ==
    IF r.attempt = maxRetries
    THEN Settle([r EXCEPT !.exhausted = TRUE], "error")
    ELSE [r EXCEPT !.pc = "retryWait", !.lastDelay = BackoffDelay(r.attempt),
                   !.events = << >>, !.parsedEvents = << >>, !.duplicates = 0]

\* scanBatch, updateProgress or save threw: the inner catch of the first
\* attempt, or the catch inside retryWithBackoff.  why is "fault" for an
\* error of the remote or of the database, "duplicate" for a duplicate-key
\* error that storeEvents let through.  exhausted records that the first
\* attempt and every retry of a batch failed.
OnBatchFailure(r, why) ==
    LET f == [r EXCEPT !.failed = why]
    IN IF ~r.inRetry THEN EnterRetry(f) ELSE RetryFailed(f)

\* a catch that rethrows every insertMany error
storeEventsRethrowsAny(code) == TRUE

\* the catch of storeEvents: does it rethrow an insertMany error with this
\* code
storeEventsRethrows(code) == code # DuplicateKeyCode

\* the error code insertMany rejects with (0: it resolves)
InsertErrorCode(writeErrors, dbFault) ==
    IF dbFault THEN OtherErrorCode
    ELSE IF writeErrors > 0 THEN DuplicateKeyCode ELSE 0

\* the blocks of the batch counted as toBlock - fromBlock
BatchScannedShortCount(r, eventsCount, date) ==
    [r EXCEPT !.progress = updateProgress(r.progress, r.toBlock, eventsCount,
                                          r.toBlock - r.fromBlock, date),
              !.events = << >>, !.parsedEvents = << >>,
              !.pc = "save"]

\* scanBatch returned eventsCount: progress.updateProgress(...), then the
\* activation waits for progress.save()
BatchScanned(r, eventsCount, date) ==
    [r EXCEPT !.progress = updateProgress(r.progress, r.toBlock, eventsCount,
                                          r.toBlock - r.fromBlock + 1, date),
              !.events = << >>, !.parsedEvents = << >>,
              !.pc = "save"]

\* the retry path without its fromBlock = toBlock + 1
AfterSaveRetryStuck(r) ==
    LET n == [r EXCEPT !.fromBlock = r.toBlock + 1, !.duplicates = 0]
    IN IF r.inRetry THEN LoopHead([r EXCEPT !.duplicates = 0])
       ELSE IF n.fromBlock <= n.currentBlock
       THEN [n EXCEPT !.pc = "delay", !.lastDelay = BatchDelayMs]
       ELSE LoopHead(n)

\* progress.save() resolved
AfterSave(r) ==
    LET n == [r EXCEPT !.fromBlock = r.toBlock + 1, !.duplicates = 0]
    IN IF ~r.inRetry /\ n.fromBlock <= n.currentBlock
       THEN [n EXCEPT !.pc = "delay", !.lastDelay = BatchDelayMs]
       ELSE LoopHead(n)

\* the flag cleared on return only, as without the finally block
FlagAfterNoFinally(r) ==
    IF r.pc = "done" /\ r.outcome # "error" THEN FALSE ELSE isScanning

\* finally { this.isScanning = false }
FlagAfter(r) == IF r.pc = "done" THEN FALSE ELSE isScanning

\* the clock does not run backwards: what new Date() can return once the
\* document p was stamped
Dates(p) == {t \in Times : t >= p.lastScanTime}

\* A settled promise resumes its awaiting caller in the microtask queue,
\* before any timer callback or I/O completion is run
NoneSettled == \A c \in Callers : call[c].pc # "done"

----------------------------------------------------------------------------
(* Actions *)

Init ==
    /\ batchSize \in BatchSizes
    /\ maxRetries \in RetryCounts
    /\ scanProgress = NoDoc
    /\ feeEvents = EmptyBag
    /\ isScanning = FALSE
    /\ scanInterval = FALSE
    /\ startPc = "none"
    /\ call = [c \in Callers |-> IdleCall]
    /\ stopped = FALSE
    /\ stats = IdleStats
    /\ peer = IdlePeer
    /\ limiter = NewLimiter(MaxRateLimit)
    /\ api = NoDoc
    /\ decoding = IdleDecoding
    /\ initializing = NotInitializing
    /\ timers = NoTimers

\* the guard's return taken through the finally block
InvokeThroughFinally(c) ==
    IF ScanGuard
    THEN /\ call' = [call EXCEPT ![c] = Settle(IdleCall, "skipped")]
         /\ isScanning' = FALSE
    ELSE /\ isScanning' = TRUE
         /\ call' = [call EXCEPT ![c] = [IdleCall EXCEPT !.pc = "getProgress"]]

\* scanForNewEvents up to its first await
Invoke(c) ==
    IF ScanGuard
    THEN /\ call' = [call EXCEPT ![c] = Settle(IdleCall, "skipped")]
         /\ UNCHANGED isScanning
    ELSE /\ isScanning' = TRUE
         /\ call' = [call EXCEPT ![c] = [IdleCall EXCEPT !.pc = "getProgress"]]

\* a direct call of the public method
DirectScan ==
    /\ NoneSettled
    /\ call["direct"].pc = "idle"
    /\ Invoke("direct")
    /\ UNCHANGED <<config, outside, stopped, durable, scanInterval, startPc>>

\* the setInterval callback
TimerFire ==
    /\ NoneSettled
    /\ scanInterval
    /\ call["timer"].pc = "idle"
    /\ IF ~isScanning THEN Invoke("timer") ELSE UNCHANGED <<isScanning, call>>
    /\ UNCHANGED <<config, outside, stopped, durable, scanInterval, startPc>>

\* getScanProgress creating the record it does not find
GetProgressCreates(c) ==
    LET r == call[c] IN
    /\ NoneSettled
    /\ r.pc = "getProgress"
    /\ \E dbOk \in BOOLEAN, date \in Times :
         LET p == IF scanProgress = NoDoc THEN SeedProgress(date) ELSE scanProgress
             n == IF dbOk
                  THEN [r EXCEPT !.progress = p,
                                 !.p0 = p.lastScannedBlock,
                                 !.pc = "getHeight"]
                  ELSE Settle(r, "error")
         IN /\ call' = [call EXCEPT ![c] = n]
            /\ isScanning' = FlagAfter(n)
            /\ scanProgress' = IF dbOk THEN p ELSE scanProgress
    /\ UNCHANGED <<config, outside, stopped, feeEvents, scanInterval, startPc>>

\* getScanProgress
GetProgress(c) ==
    LET r == call[c] IN
    /\ NoneSettled
    /\ r.pc = "getProgress"
    /\ \E dbOk \in BOOLEAN :
         LET n == IF dbOk /\ scanProgress # NoDoc
                  THEN [r EXCEPT !.progress = scanProgress,
                                 !.p0 = scanProgress.lastScannedBlock,
                                 !.pc = "getHeight"]
                  ELSE Settle(r, "error")
         IN /\ call' = [call EXCEPT ![c] = n]
            /\ isScanning' = FlagAfter(n)
    /\ UNCHANGED <<config, outside, stopped, durable, scanInterval, startPc>>

\* the up-to-date return made to stamp the progress record first
GetHeightStamps(c) ==
    LET r == call[c]
        t == [r EXCEPT !.heightAttempt = r.heightAttempt + 1] IN
    /\ NoneSettled
    /\ r.pc = "getHeight"
    /\ \/ \E h \in Heights, date \in Dates(r.progress) :
            LET g == [t EXCEPT !.currentBlock = h, !.heightAttempt = 0]
                n == IF UpToDate(g.progress, h) THEN Settle(g, "uptodate")
                     ELSE LoopHead([g EXCEPT !.fromBlock = FirstBlock(g.progress)])
            IN /\ call' = [call EXCEPT ![c] = n]
               /\ isScanning' = FlagAfter(n)
               /\ scanProgress' = IF UpToDate(g.progress, h)
                                  THEN updateProgress(g.progress, h, 0, 0, date)
                                  ELSE scanProgress
       \/ LET n == IF t.heightAttempt = HeightMaxRetries
                    THEN Settle(t, "error") ELSE t
          IN /\ call' = [call EXCEPT ![c] = n]
             /\ isScanning' = FlagAfter(n)
             /\ UNCHANGED scanProgress
    /\ UNCHANGED <<config, outside, stopped, feeEvents, scanInterval, startPc>>

\* a height fetch that gives up at its first failed attempt
GetHeightNoRetry(c) ==
    LET r == call[c]
        t == [r EXCEPT !.heightAttempt = r.heightAttempt + 1] IN
    /\ NoneSettled
    /\ r.pc = "getHeight"
    /\ \/ \E h \in Heights :
            LET g == [t EXCEPT !.currentBlock = h, !.heightAttempt = 0]
                n == IF UpToDate(g.progress, h) THEN Settle(g, "uptodate")
                     ELSE LoopHead([g EXCEPT !.fromBlock = FirstBlock(g.progress)])
            IN /\ call' = [call EXCEPT ![c] = n]
               /\ isScanning' = FlagAfter(n)
       \/ LET n == Settle(t, "error")
          IN /\ call' = [call EXCEPT ![c] = n]
             /\ isScanning' = FlagAfter(n)
    /\ UNCHANGED <<config, outside, stopped, durable, scanInterval, startPc>>

\* BlockchainUtils.getCurrentBlockNumber: one provider.getBlockNumber()
GetHeight(c) ==
    LET r == call[c]
        t == [r EXCEPT !.heightAttempt = r.heightAttempt + 1] IN
    /\ NoneSettled
    /\ r.pc = "getHeight"
    /\ \/ \E h \in Heights :
            LET g == [t EXCEPT !.currentBlock = h, !.heightAttempt = 0]
                n == IF UpToDate(g.progress, h) THEN Settle(g, "uptodate")
                     ELSE LoopHead([g EXCEPT !.fromBlock = FirstBlock(g.progress)])
            IN /\ call' = [call EXCEPT ![c] = n]
               /\ isScanning' = FlagAfter(n)
       \/ LET n == IF t.heightAttempt = HeightMaxRetries
                    THEN Settle(t, "error") ELSE t
          IN /\ call' = [call EXCEPT ![c] = n]
             /\ isScanning' = FlagAfter(n)
    /\ UNCHANGED <<config, outside, stopped, durable, scanInterval, startPc>>

\* loadFeeCollectorEvents(fromBlock, toBlock) inside scanBatch
Fetch(c) ==
    LET r == call[c]
        t == [r EXCEPT !.fetched = NoteFetch(r.fetched, <<r.fromBlock, r.toBlock>>)] IN
    /\ NoneSettled
    /\ r.pc = "fetch"
    /\ \E rpcOk \in BOOLEAN, date \in Dates(r.progress) :
         LET events == queryFilter(r.fromBlock, r.toBlock)
             n == IF ~rpcOk THEN OnBatchFailure(t, "fault")
                  ELSE IF Len(events) = 0 THEN BatchScanned(t, 0, date)
                  ELSE [t EXCEPT !.events = events, !.pc = "parse"]
         IN /\ call' = [call EXCEPT ![c] = n]
            /\ isScanning' = FlagAfter(n)
    /\ UNCHANGED <<config, outside, stopped, durable, scanInterval, startPc>>

\* parseFeeCollectorEvents(events), then storeEvents up to insertMany
Parse(c) ==
    LET r == call[c]
        parsed == parseFeeCollectorEvents(r.events) IN
    /\ NoneSettled
    /\ r.pc = "parse"
    /\ \E date \in Dates(r.progress) :
         LET n == IF Len(parsed) = 0 THEN BatchScanned(r, Len(parsed), date)
                  ELSE [r EXCEPT !.parsedEvents = parsed, !.events = << >>,
                                 !.pc = "store"]
         IN call' = [call EXCEPT ![c] = n]
    /\ UNCHANGED <<config, outside, stopped, durable, isScanning, scanInterval, startPc>>

\* storeEvents: insertMany resolves, or rejects with duplicate-key errors
\* only, or (dbFault) rejects with another error after writing the documents
\* at the positions S
Store(c) ==
    LET r == call[c] IN
    /\ NoneSettled
    /\ r.pc = "store"
    /\ \E dbFault \in BOOLEAN, S \in SUBSET (1..Len(r.parsedEvents)),
          date \in Dates(r.progress) :
         LET docs == IF dbFault THEN Pick(r.parsedEvents, S, 1) ELSE r.parsedEvents
             res == insertMany(feeEvents, docs)
             code == InsertErrorCode(res.writeErrors, dbFault)
             d == [r EXCEPT !.duplicates = res.writeErrors]
             n == IF code # 0 /\ storeEventsRethrows(code)
                  THEN OnBatchFailure(d, IF dbFault THEN "fault" ELSE "duplicate")
                  ELSE BatchScanned(d, Len(r.parsedEvents), date)
         IN /\ dbFault \/ S = {}
            /\ feeEvents' = res.coll
            /\ call' = [call EXCEPT ![c] = n]
            /\ isScanning' = FlagAfter(n)
    /\ UNCHANGED <<config, outside, stopped, scanProgress, scanInterval, startPc>>

\* progress.save()
Save(c) ==
    LET r == call[c] IN
    /\ NoneSettled
    /\ r.pc = "save"
    /\ \/ LET n == AfterSave(r)
          IN /\ scanProgress' = r.progress
             /\ call' = [call EXCEPT ![c] = n]
             /\ isScanning' = FlagAfter(n)
       \/ LET n == OnBatchFailure(r, "fault")
          IN /\ UNCHANGED scanProgress
             /\ call' = [call EXCEPT ![c] = n]
             /\ isScanning' = FlagAfter(n)
    /\ UNCHANGED <<config, outside, stopped, feeEvents, scanInterval, startPc>>

\* delay(500) between two batches elapsed
Delay(c) ==
    LET r == call[c]
        n == LoopHead([r EXCEPT !.lastDelay = 0]) IN
    /\ NoneSettled
    /\ r.pc = "delay"
    /\ call' = [call EXCEPT ![c] = n]
    /\ isScanning' = FlagAfter(n)
    /\ UNCHANGED <<config, outside, stopped, durable, scanInterval, startPc>>

\* the backoff delay elapsed: the next attempt of retryWithBackoff
RetryWait(c) ==
    LET r == call[c] IN
    /\ NoneSettled
    /\ r.pc = "retryWait"
    /\ call' = [call EXCEPT ![c] = [r EXCEPT !.attempt = r.attempt + 1,
                                              !.lastDelay = 0, !.pc = "fetch"]]
    /\ UNCHANGED <<config, outside, stopped, durable, isScanning, scanInterval, startPc>>

\* the scans of start() awaited without their .catch: a failed scan reaches
\* the catch block of start()
ReturnRethrows(c) ==
    /\ call[c].pc = "done"
    /\ call' = [call EXCEPT ![c] = IdleCall]
    /\ IF c = "start"
       THEN startPc' = (IF call[c].outcome = "error" THEN "failed"
                        ELSE IF startPc = "await1" THEN "scan2" ELSE "timer")
       ELSE UNCHANGED startPc
    /\ UNCHANGED <<config, outside, stopped, durable, isScanning, scanInterval>>

\* the caller of a settled scanForNewEvents resumes
Return(c) ==
    /\ call[c].pc = "done"
    /\ call' = [call EXCEPT ![c] = IdleCall]
    /\ IF c = "start"
       THEN startPc' = (IF startPc = "await1" THEN "scan2" ELSE "timer")
       ELSE UNCHANGED startPc
    /\ UNCHANGED <<config, outside, stopped, durable, isScanning, scanInterval>>

\* how the promise of start() has settled: every path of start() returns,
\* the catch block logs and does not rethrow
StartSettled ==
    IF startPc \in {"invalid", "failed", "started"} THEN "resolved" ELSE "pending"

\* a start() that seeds the progress record before it looks at the result
\* of validateContract
StartValidateAfterSeed ==
    /\ NoneSettled
    /\ startPc = "none"
    /\ \E isValid \in BOOLEAN, date \in Times :
         /\ startPc' = IF isValid THEN "initFind" ELSE "invalid"
         /\ scanProgress' = IF scanProgress = NoDoc THEN SeedProgress(date)
                             ELSE scanProgress
    /\ UNCHANGED <<config, outside, stopped, feeEvents, isScanning, scanInterval, call>>

\* start(): validateContract
StartValidate ==
    /\ NoneSettled
    /\ startPc = "none"
    /\ \E isValid \in BOOLEAN :
         startPc' = IF isValid THEN "initFind" ELSE "invalid"
    /\ UNCHANGED <<config, outside, stopped, durable, isScanning, scanInterval, call>>

\* initializeScanProgress written as an upsert that sets the seed values
StartInitUpsert ==
    /\ NoneSettled
    /\ startPc = "initFind"
    /\ \E dbOk \in BOOLEAN, date \in Times :
         IF dbOk
         THEN scanProgress' = SeedProgress(date) /\ startPc' = "scan1"
         ELSE UNCHANGED scanProgress /\ startPc' = "failed"
    /\ UNCHANGED <<config, outside, stopped, feeEvents, isScanning, scanInterval, call>>

\* initializeScanProgress: ScanProgressModel.findOne
StartInitFind ==
    /\ NoneSettled
    /\ startPc = "initFind"
    /\ \E dbOk \in BOOLEAN :
         startPc' = IF ~dbOk THEN "failed"
                    ELSE IF scanProgress # NoDoc THEN "scan1" ELSE "initCreate"
    /\ UNCHANGED <<config, outside, stopped, durable, isScanning, scanInterval, call>>

\* initializeScanProgress: ScanProgressModel.create, under the unique index
\* on chain
StartInitCreate ==
    /\ NoneSettled
    /\ startPc = "initCreate"
    /\ \E dbOk \in BOOLEAN, date \in Times :
         IF dbOk /\ scanProgress = NoDoc
         THEN scanProgress' = SeedProgress(date) /\ startPc' = "scan1"
         ELSE UNCHANGED scanProgress /\ startPc' = "failed"
    /\ UNCHANGED <<config, outside, stopped, feeEvents, isScanning, scanInterval, call>>

\* start(): await this.scanForNewEvents().catch(...), twice
StartScan ==
    /\ NoneSettled
    /\ startPc \in {"scan1", "scan2"}
    /\ call["start"].pc = "idle"
    /\ Invoke("start")
    /\ startPc' = (IF startPc = "scan1" THEN "await1" ELSE "await2")
    /\ UNCHANGED <<config, outside, stopped, durable, scanInterval>>

\* the timer installed once the first scan has returned
StartTimerEarly ==
    /\ NoneSettled
    /\ startPc \in {"scan2", "timer"}
    /\ scanInterval' = TRUE
    /\ startPc' = "started"
    /\ UNCHANGED <<config, outside, stopped, durable, isScanning, call>>

\* start(): setInterval
StartTimer ==
    /\ NoneSettled
    /\ startPc = "timer"
    /\ scanInterval' = TRUE
    /\ startPc' = "started"
    /\ UNCHANGED <<config, outside, stopped, durable, isScanning, call>>

\* a stop() that also gives up the cycle in flight
StopAborts ==
    /\ NoneSettled
    /\ scanInterval' = FALSE
    /\ stopped' = TRUE
    /\ isScanning' = FALSE
    /\ call' = [c \in Callers |-> IF InFlight(c) THEN IdleCall ELSE call[c]]
    /\ UNCHANGED <<config, outside, durable, startPc>>

\* stop(): clearInterval
Stop ==
    /\ NoneSettled
    /\ scanInterval' = FALSE
    /\ stopped' = TRUE
    /\ UNCHANGED <<config, outside, durable, isScanning, startPc, call>>

\* the process dies and is started again: memory is lost, the database is not
Crash ==
    /\ isScanning' = FALSE
    /\ scanInterval' = FALSE
    /\ startPc' = "none"
    /\ call' = [c \in Callers |-> IdleCall]
    /\ stopped' = FALSE
    /\ stats' = IdleStats
    /\ UNCHANGED <<config, durable, peer, http, decoding, initializing, timers>>

Next ==
    \/ DirectScan
    \/ TimerFire
    \/ \E c \in Callers : GetProgress(c)
    \/ \E c \in Callers : GetHeight(c)
    \/ \E c \in Callers : Fetch(c)
    \/ \E c \in Callers : Parse(c)
    \/ \E c \in Callers : Store(c)
    \/ \E c \in Callers : Save(c)
    \/ \E c \in Callers : Delay(c)
    \/ \E c \in Callers : RetryWait(c)
    \/ \E c \in Callers : Return(c)
    \/ StartValidate
    \/ StartInitFind
    \/ StartInitCreate
    \/ StartScan
    \/ StartTimer
    \/ Stop
    \/ Crash

Spec == Init /\ [][Next]_vars

\* an await of activation c inside the try block completes
InFlightStep(c) ==
    \/ GetProgress(c)
    \/ GetHeight(c)
    \/ Fetch(c)
    \/ Parse(c)
    \/ Store(c)
    \/ Save(c)
    \/ Delay(c)
    \/ RetryWait(c)

\* The state start() leaves when the chain had nothing to scan: the progress
\* record is the seed and the timer is installed
InitStarted ==
    /\ batchSize \in BatchSizes
    /\ maxRetries \in RetryCounts
    /\ scanProgress = SeedProgress(0)
    /\ feeEvents = EmptyBag
    /\ isScanning = FALSE
    /\ scanInterval = TRUE
    /\ startPc = "started"
    /\ call = [c \in Callers |-> IdleCall]
    /\ stopped = FALSE
    /\ stats = IdleStats
    /\ peer = IdlePeer
    /\ limiter = NewLimiter(MaxRateLimit)
    /\ api = NoDoc
    /\ decoding = IdleDecoding
    /\ initializing = NotInitializing
    /\ timers = NoTimers

\* the instance after start(): scans come from the timer and from direct calls
NextStarted ==
    \/ DirectScan
    \/ TimerFire
    \/ \E c \in {"timer", "direct"} : InFlightStep(c)
    \/ \E c \in {"timer", "direct"} : Return(c)
    \/ Stop

\* EventScanner.getStats is called: it awaits getScanProgress()
StatsCall ==
    /\ NoneSettled
    /\ stats.pc = "idle"
    /\ stats' = [IdleStats EXCEPT !.pc = "find"]
    /\ UNCHANGED <<config, durable, isScanning, scanInterval, startPc, call, stopped, peer, http, decoding, initializing, timers>>

\* getScanProgress settles; with a record, getStats returns its statistics
\* and the flag as it is now
StatsFind ==
    /\ NoneSettled
    /\ stats.pc = "find"
    /\ \E dbOk \in BOOLEAN :
         stats' = IF dbOk /\ scanProgress # NoDoc
                  THEN [stats EXCEPT !.pc = "returned",
                          !.result = [stats |-> getStats(scanProgress),
                                      isScanning |-> isScanning]]
                  ELSE [stats EXCEPT !.pc = "thrown"]
    /\ UNCHANGED <<config, durable, isScanning, scanInterval, startPc, call, stopped, peer, http, decoding, initializing, timers>>

\* the caller of getStats has its answer
StatsReturn ==
    /\ stats.pc \in {"returned", "thrown"}
    /\ stats' = IdleStats
    /\ UNCHANGED <<config, durable, isScanning, scanInterval, startPc, call, stopped, peer, http, decoding, initializing, timers>>

\* scans of the instance that come from direct calls only
NextDirect ==
    \/ DirectScan
    \/ InFlightStep("direct")
    \/ Return("direct")

\* the instance scanning, with getStats called on it
NextStats ==
    \/ NextDirect
    \/ StatsCall
    \/ StatsFind
    \/ StatsReturn

StatsSpec == InitStarted /\ [][NextStats]_vars

\* the started instance configured with up to MaxBackoffRetries retries
InitBackoff ==
    /\ batchSize \in BatchSizes
    /\ maxRetries \in 1..MaxBackoffRetries
    /\ scanProgress = SeedProgress(0)
    /\ feeEvents = EmptyBag
    /\ isScanning = FALSE
    /\ scanInterval = TRUE
    /\ startPc = "started"
    /\ call = [c \in Callers |-> IdleCall]
    /\ stopped = FALSE
    /\ stats = IdleStats
    /\ peer = IdlePeer
    /\ limiter = NewLimiter(MaxRateLimit)
    /\ api = NoDoc
    /\ decoding = IdleDecoding
    /\ initializing = NotInitializing
    /\ timers = NoTimers

BackoffSpec == InitBackoff /\ [][NextDirect]_vars

\* what the second process leaves alone
thisProcess == <<isScanning, scanInterval, startPc, call, stopped, stats, http,
                 decoding, initializing, timers>>

\* the second process calls scanForNewEvents: getScanProgress
PeerGetProgress ==
    /\ peer.pc = "idle"
    /\ scanProgress # NoDoc
    /\ peer' = [IdlePeer EXCEPT !.pc = "getHeight", !.progress = scanProgress]
    /\ UNCHANGED <<config, durable, thisProcess>>

\* the second process: getCurrentBlockNumber, the up-to-date test and the
\* head of the loop
PeerGetHeight ==
    /\ peer.pc = "getHeight"
    /\ \E h \in Heights :
         peer' = IF UpToDate(peer.progress, h) THEN IdlePeer
                 ELSE [peer EXCEPT !.currentBlock = h,
                          !.fromBlock = FirstBlock(peer.progress),
                          !.toBlock = Min(FirstBlock(peer.progress) + batchSize - 1, h),
                          !.pc = "scanBatch"]
    /\ UNCHANGED <<config, durable, thisProcess>>

\* the second process: scanBatch as one step (its events inserted), then
\* progress.updateProgress; or the batch fails for good and the cycle throws
PeerScanBatch ==
    /\ peer.pc = "scanBatch"
    /\ \/ \E date \in Dates(peer.progress) :
            LET parsed == parseFeeCollectorEvents(queryFilter(peer.fromBlock, peer.toBlock))
            IN /\ feeEvents' = insertMany(feeEvents, parsed).coll
               /\ peer' = [peer EXCEPT !.pc = "save",
                              !.progress = updateProgress(peer.progress, peer.toBlock,
                                              Len(parsed),
                                              peer.toBlock - peer.fromBlock + 1, date)]
       \/ peer' = IdlePeer /\ UNCHANGED feeEvents
    /\ UNCHANGED <<config, scanProgress, thisProcess>>

\* the second process: progress.save() writes the fields updateProgress
\* assigned (lastScannedBlock always among them: toBlock is above the value
\* this process holds), then the loop goes on
PeerSave ==
    /\ peer.pc = "save"
    /\ scanProgress' = peer.progress
    /\ peer' = IF peer.toBlock + 1 <= peer.currentBlock
               THEN [peer EXCEPT !.fromBlock = peer.toBlock + 1,
                        !.toBlock = Min(peer.toBlock + batchSize, peer.currentBlock),
                        !.pc = "scanBatch"]
               ELSE IdlePeer
    /\ UNCHANGED <<config, feeEvents, thisProcess>>

\* two scanner processes on one database: this one scanning on direct calls,
\* and the second
NextTwo ==
    \/ NextDirect
    \/ PeerGetProgress
    \/ PeerGetHeight
    \/ PeerScanBatch
    \/ PeerSave

TwoSpec == InitStarted /\ [][NextTwo]_vars

(* The events API *)

\* a query parameter that is absent (undefined, or NaN after parseInt)
Undefined == "undefined"
None == [set |-> FALSE, value |-> 0]
Some(n) == [set |-> TRUE, value |-> n]

\* JavaScript truthiness of an optional number: undefined, NaN and 0 are falsy
Truthy(o) == o.set /\ o.value # 0

\* o || d
OrElse(o, d) == IF Truthy(o) THEN o.value ELSE d

\* String.prototype.toLowerCase on the addresses used here
toLowerCase(a) == IF a = "0xAA" THEN "0xaa" ELSE a

\* BlockchainUtils.isValidAddress
isValidAddress(a) == a \in {"0xAA", "0xaa", "0x33", "0x11", "0x22"}

\* BlockchainUtils.normalizeAddress: the checksum form, which has capitals
\* where the address has letters
normalizeAddress(a) == IF toLowerCase(a) = "0xaa" THEN "0xAA" ELSE toLowerCase(a)

\* storeEvents: the document insertMany writes for a parsed event; the
\* addresses are the ones parseFeeCollectorEvents normalised, and the
\* pre('save') hook that lowercases them does not run on insertMany
StoredEvent(token, integrator, blockNumber, logIndex) ==
    [integrator |-> normalizeAddress(integrator), token |-> normalizeAddress(token),
     blockNumber |-> blockNumber, logIndex |-> logIndex]

\* documents the scanner can have put into the feeevents collection
EventUniverse ==
    {StoredEvent("0x11", "0xaa", 1, 0),
     StoredEvent("0x22", "0x33", 2, 0),
     StoredEvent("0x11", "0x33", 2, 1),
     StoredEvent("0x11", "0x33", 3, 0)}

NoFilter == [integrator |-> Undefined, token |-> Undefined, gte |-> None, lte |-> None]

\* getEvents, "Build MongoDB query": a filter is set when its parameter is truthy
buildQuery(params) ==
    [integrator |-> IF params.integrator # Undefined
                    THEN toLowerCase(params.integrator) ELSE Undefined,
     token |-> IF params.token # Undefined
               THEN toLowerCase(params.token) ELSE Undefined,
     gte |-> IF Truthy(params.fromBlock) THEN params.fromBlock ELSE None,
     lte |-> IF Truthy(params.toBlock) THEN params.toBlock ELSE None]

\* FeeEventModel.find(query) / countDocuments(query): the matching documents
find(store, query) ==
    {e \in store :
        /\ query.integrator # Undefined => e.integrator = query.integrator
        /\ query.token # Undefined => e.token = query.token
        /\ query.gte.set => e.blockNumber >= query.gte.value
        /\ query.lte.set => e.blockNumber <= query.lte.value}

\* the order of .sort({ blockNumber: -1, logIndex: -1 }): a comes before b
Before(a, b) ==
    \/ a.blockNumber > b.blockNumber
    \/ a.blockNumber = b.blockNumber /\ a.logIndex > b.logIndex

\* .sort({ blockNumber: -1, logIndex: -1 })
RECURSIVE sort(_)
sort(S) ==
    IF S = {} THEN << >>
    ELSE LET first == CHOOSE a \in S : \A b \in S \ {a} : Before(a, b)
         IN << first >> \o sort(S \ {first})

\* .skip(skip).limit(limit) on a sorted result; a negative limit is taken by
\* the server as its absolute value
skipLimit(docs, skip, limit) ==
    LET n == IF limit < 0 THEN -limit ELSE limit
    IN SubSeq(docs, skip + 1, Min(skip + n, Len(docs)))

\* skip taken as page * limit
skipOfNextPage(page, limit) == page * limit

\* const skip = (page - 1) * limit
skipOf(page, limit) == (page - 1) * limit

\* Math.ceil(total / limit)
pagesOf(total, limit) ==
    IF limit > 0 THEN (total + limit - 1) \div limit
    ELSE -(total \div (-limit))

ErrorResponse(status) == [status |-> status, data |-> << >>, pagination |-> NoDoc]

\* the success response of both list routes
Paginated(store, query, page, limit) ==
    IF skipOf(page, limit) < 0 THEN ErrorResponse(500)
    ELSE LET total == Cardinality(find(store, query))
         IN [status |-> 200,
             data |-> skipLimit(sort(find(store, query)), skipOf(page, limit), limit),
             pagination |-> [page |-> page, limit |-> limit, total |-> total,
                             pages |-> pagesOf(total, limit)]]

\* EventController.validateQueryParams: does the Joi schema accept the query
validQueryParams(q) ==
    /\ q.integrator # Undefined => isValidAddress(q.integrator)
    /\ q.token # Undefined => isValidAddress(q.token)
    /\ q.fromBlock.set => q.fromBlock.value >= 0
    /\ q.toBlock.set => q.toBlock.value >= 0
    /\ q.page.set => q.page.value >= 1
    /\ q.limit.set => q.limit.value >= 1 /\ q.limit.value <= LimitCap

\* EventController.getEvents
getEvents(store, q) ==
    IF ~validQueryParams(q) THEN ErrorResponse(400)
    ELSE LET params == [q EXCEPT !.page = IF q.page.set THEN q.page ELSE Some(1),
                                 !.limit = IF q.limit.set THEN q.limit
                                           ELSE Some(DefaultLimit)]
         IN Paginated(store, buildQuery(params), OrElse(params.page, 1),
                      OrElse(params.limit, DefaultLimit))

\* EventController.getEventsByIntegrator; page and limit are what parseInt
\* made of the query strings
getEventsByIntegrator(store, q) ==
    IF ~isValidAddress(q.integrator) THEN ErrorResponse(400)
    ELSE Paginated(store,
                   [NoFilter EXCEPT !.integrator = toLowerCase(q.integrator)],
                   OrElse(q.page, 1),
                   Min(OrElse(q.limit, DefaultLimit), LimitCap))

\* the queries GET /api/events is sent
EventQueries ==
    [integrator : {Undefined, "0xaa", "0x33", "zz"},
     token : {Undefined, "0x11"},
     fromBlock : {None} \cup {Some(n) : n \in 0..MaxQueryBlock},
     toBlock : {None} \cup {Some(n) : n \in 0..MaxQueryBlock},
     page : {None} \cup {Some(n) : n \in 0..MaxPageAsked},
     limit : {None} \cup {Some(n) : n \in 0..MaxLimitAsked} \cup {Some(LimitCap + 1)}]

\* the queries GET /api/events/integrator/:integrator is sent
IntegratorQueries ==
    [integrator : {"0xaa", "0x33", "zz"},
     page : {None} \cup {Some(n) : n \in (-1)..MaxPageAsked},
     limit : {None} \cup {Some(n) : n \in (-1)..MaxLimitAsked} \cup {Some(LimitCap + 1)}]

\* no request is being served; store is the collection
IdleApi(store) ==
    [store |-> store, route |-> "none", request |-> NoDoc, response |-> NoDoc]

\* what the HTTP server does not touch
scanner == <<config, durable, isScanning, scanInterval, startPc, call, stopped,
             stats, peer, decoding, initializing, timers>>

\* the HTTP server is listening, with some API_RATE_LIMIT, before the scanner
\* is started
InitRate ==
    /\ batchSize \in BatchSizes
    /\ maxRetries \in RetryCounts
    /\ scanProgress = NoDoc
    /\ feeEvents = EmptyBag
    /\ isScanning = FALSE
    /\ scanInterval = FALSE
    /\ startPc = "none"
    /\ call = [c \in Callers |-> IdleCall]
    /\ stopped = FALSE
    /\ stats = IdleStats
    /\ peer = IdlePeer
    /\ \E m \in 1..MaxRateLimit : limiter = NewLimiter(m)
    /\ api = NoDoc
    /\ decoding = IdleDecoding
    /\ initializing = NotInitializing
    /\ timers = NoTimers

\* the rate limiting middleware handles a request of client ip to /api
RateRequest(ip) ==
    LET known == limiter.clients[ip]
        client == IF known = NoDoc \/ limiter.now > known.resetTime
                  THEN [requests |-> 0, resetTime |-> limiter.now + WindowMs]
                  ELSE known
        counted == [client EXCEPT !.requests = client.requests + 1]
    IN /\ Len(limiter.passed[ip]) + limiter.rejected[ip] < MaxSent
       /\ limiter' =
            IF counted.requests > limiter.maxRequests
            THEN [limiter EXCEPT !.clients[ip] = counted,
                                 !.rejected[ip] = @ + 1]
            ELSE [limiter EXCEPT !.clients[ip] = counted,
                                 !.passed[ip] = Append(@, limiter.now)]
       /\ UNCHANGED <<scanner, api>>

\* time passes
RateTick ==
    /\ limiter.now < MaxTicks * TickMs
    /\ limiter' = [limiter EXCEPT !.now = @ + TickMs]
    /\ UNCHANGED <<scanner, api>>

NextRate ==
    \/ \E ip \in ClientIps : RateRequest(ip)
    \/ RateTick

RateSpec == InitRate /\ [][NextRate]_vars

\* the server with some events stored
InitApi ==
    /\ batchSize = MaxBatchSize
    /\ maxRetries = MaxRetriesCfg
    /\ scanProgress = NoDoc
    /\ feeEvents = EmptyBag
    /\ isScanning = FALSE
    /\ scanInterval = FALSE
    /\ startPc = "none"
    /\ call = [c \in Callers |-> IdleCall]
    /\ stopped = FALSE
    /\ stats = IdleStats
    /\ peer = IdlePeer
    /\ limiter = NewLimiter(MaxRateLimit)
    /\ \E store \in SUBSET EventUniverse : api = IdleApi(store)
    /\ decoding = IdleDecoding
    /\ initializing = NotInitializing
    /\ timers = NoTimers

\* GET /api/events
ApiGetEvents ==
    /\ api.route = "none"
    /\ \E q \in EventQueries :
         api' = [api EXCEPT !.route = "getEvents", !.request = q,
                            !.response = getEvents(api.store, q)]
    /\ UNCHANGED <<scanner, limiter>>

\* GET /api/events/integrator/:integrator
ApiGetEventsByIntegrator ==
    /\ api.route = "none"
    /\ \E q \in IntegratorQueries :
         api' = [api EXCEPT !.route = "getEventsByIntegrator", !.request = q,
                            !.response = getEventsByIntegrator(api.store, q)]
    /\ UNCHANGED <<scanner, limiter>>

\* the response is sent
ApiRespond ==
    /\ api.route # "none"
    /\ api' = IdleApi(api.store)
    /\ UNCHANGED <<scanner, limiter>>

NextApi ==
    \/ ApiGetEvents
    \/ ApiGetEventsByIntegrator
    \/ ApiRespond

ApiSpec == InitApi /\ [][NextApi]_vars

\* e and the query parameter a are the same address
SameAddress(e, a) == toLowerCase(e) = toLowerCase(a)

\* the filters a query supplies, each as the query parameter reads
Satisfies(e, q) ==
    /\ q.integrator # Undefined => SameAddress(e.integrator, q.integrator)
    /\ q.token # Undefined => SameAddress(e.token, q.token)
    /\ q.fromBlock.set => e.blockNumber >= q.fromBlock.value
    /\ q.toBlock.set => e.blockNumber <= q.toBlock.value

\* data holds, in order, the items skip+1 .. skip+Len(data) of the documents
\* of F ordered by blockNumber descending, then logIndex descending
IsSliceOf(data, F, skip) ==
    \A i \in 1..Len(data) :
        /\ data[i] \in F
        /\ Cardinality({e \in F : Before(e, data[i])}) = skip + i - 1

\* a successful answer of GET /api/events
EventsAnswered == api.route = "getEvents" /\ api.response.status = 200

\* C19: GET /api/events returns exactly the stored events that satisfy every
\* supplied filter, in blockNumber-descending then logIndex-descending order,
\* for every combination of filters, fromBlock = 0 and toBlock = 0 included
C19_ReturnsEventsMatchingFilters ==
    EventsAnswered =>
        LET F == {e \in api.store : Satisfies(e, api.request)}
            pg == api.response.pagination
            skip == (pg.page - 1) * pg.limit
        IN /\ pg.total = Cardinality(F)
           /\ Len(api.response.data) = Max(0, Min(skip + pg.limit, pg.total) - skip)
           /\ IsSliceOf(api.response.data, F, skip)

\* the same statement for requests whose toBlock is absent or positive and
\* whose integrator, if any, is stored as it is queried: holds
C19_HoldsForNonZeroToBlock ==
    (/\ EventsAnswered
     /\ ~(api.request.toBlock.set /\ api.request.toBlock.value = 0)
     /\ api.request.integrator # Undefined
            => normalizeAddress(api.request.integrator) = toLowerCase(api.request.integrator))
        => LET F == {e \in api.store : Satisfies(e, api.request)}
               pg == api.response.pagination
               skip == (pg.page - 1) * pg.limit
           IN /\ pg.total = Cardinality(F)
              /\ Len(api.response.data) = Max(0, Min(skip + pg.limit, pg.total) - skip)
              /\ IsSliceOf(api.response.data, F, skip)

\* Every remote call, database call and timer of a running call eventually
\* completes (strongly fair: a call that settled meanwhile resumes its caller
\* first), and a settled call resumes its caller.
LiveSpec ==
    /\ InitStarted
    /\ [][NextStarted]_vars
    /\ \A c \in {"timer", "direct"} : SF_vars(InFlightStep(c)) /\ WF_vars(Return(c))

----------------------------------------------------------------------------
(* Decoding with block timestamps *)

\* block.timestamp * 1000 of block b, as a Date
BlockTimeMs(b) == b * 1000

\* what new Date() can return while a batch is decoded: later than every block
WallClock == {BlockTimeMs(MaxBlock + 1) + t : t \in Times}

\* a timestamp fetch that rejects when provider.getBlock fails
getBlockTimestampThrows(blockOk, blockNumber, now) ==
    [threw |-> ~blockOk, date |-> BlockTimeMs(blockNumber)]

\* BlockchainUtils.getBlockTimestamp: the block's time, or new Date() when
\* provider.getBlock fails
getBlockTimestamp(blockOk, blockNumber, now) ==
    [threw |-> FALSE, date |-> IF blockOk THEN BlockTimeMs(blockNumber) ELSE now]

\* FeeCollectorService.parseFeeCollectorEvents with the timestamp of each
\* event: blockOk[i] is whether getBlock succeeds for entry i, clock[i] what
\* new Date() returns then; anything thrown for an entry skips the entry
RECURSIVE parseTimed(_, _, _, _)
parseTimed(events, blockOk, clock, i) ==
    IF i > Len(events) THEN << >>
    ELSE LET e == events[i]
             timestamp == getBlockTimestamp(blockOk[i], e.blockNumber, clock[i])
             rest == parseTimed(events, blockOk, clock, i + 1)
         IN IF e.decodes /\ ~timestamp.threw
            THEN << [transactionHash |-> e.transactionHash,
                     logIndex |-> e.logIndex,
                     blockNumber |-> e.blockNumber,
                     timestamp |-> timestamp.date] >> \o rest
            ELSE rest

\* the clock readings of n entries decoded one after the other
Clocks(n) ==
    {ck \in [1..n -> WallClock] : \A i \in 1..n, j \in 1..n : i <= j => ck[i] <= ck[j]}

\* the scanner about to decode batches, nothing stored yet
InitDecode ==
    /\ batchSize \in BatchSizes
    /\ maxRetries = MaxRetriesCfg
    /\ scanProgress = SeedProgress(0)
    /\ feeEvents = EmptyBag
    /\ isScanning = FALSE
    /\ scanInterval = TRUE
    /\ startPc = "started"
    /\ call = [c \in Callers |-> IdleCall]
    /\ stopped = FALSE
    /\ stats = IdleStats
    /\ peer = IdlePeer
    /\ limiter = NewLimiter(MaxRateLimit)
    /\ api = NoDoc
    /\ decoding = IdleDecoding
    /\ initializing = NotInitializing
    /\ timers = NoTimers

\* what decoding and storing a batch leaves alone
notDecoding == <<config, scanProgress, isScanning, scanInterval, startPc, call,
                 stopped, stats, peer, http, initializing, timers>>

\* scanBatch: the entries of a batch were fetched and are decoded
DecodeParse ==
    /\ decoding.pc = "idle"
    /\ \E fromBlock \in StartBlock..MaxBlock :
         \E toBlock \in fromBlock..Min(fromBlock + batchSize - 1, MaxBlock) :
           LET events == queryFilter(fromBlock, toBlock)
           IN /\ Len(events) > 0
              /\ \E blockOk \in [1..Len(events) -> BOOLEAN], clock \in Clocks(Len(events)) :
                   decoding' = [pc |-> "parsed", events |-> events,
                                blockOk |-> blockOk, clock |-> clock,
                                parsedEvents |-> parseTimed(events, blockOk, clock, 1)]
    /\ UNCHANGED <<notDecoding, feeEvents>>

\* scanBatch: storeEvents(parsedEvents)
DecodeStore ==
    /\ decoding.pc = "parsed"
    /\ feeEvents' = insertMany(feeEvents, decoding.parsedEvents).coll
    /\ decoding' = [decoding EXCEPT !.pc = "stored"]
    /\ UNCHANGED notDecoding

\* scanBatch returns
DecodeReturn ==
    /\ decoding.pc = "stored"
    /\ decoding' = IdleDecoding
    /\ UNCHANGED <<notDecoding, feeEvents>>

NextDecode ==
    \/ DecodeParse
    \/ DecodeStore
    \/ DecodeReturn

DecodeSpec == InitDecode /\ [][NextDecode]_vars

----------------------------------------------------------------------------
(* initializeScanProgress on a shared collection *)

\* the collection without its unique index on chain
NoChainIndex(records) == FALSE

\* @index({ chain: 1 }, { unique: true }): a second document of the chain
\* is rejected
ChainIndexRejects(records) == records # << >>

\* the database before any scanner was started
InitInitialize ==
    /\ batchSize = MaxBatchSize
    /\ maxRetries = MaxRetriesCfg
    /\ scanProgress = NoDoc
    /\ feeEvents = EmptyBag
    /\ isScanning = FALSE
    /\ scanInterval = FALSE
    /\ startPc = "none"
    /\ call = [c \in Callers |-> IdleCall]
    /\ stopped = FALSE
    /\ stats = IdleStats
    /\ peer = IdlePeer
    /\ limiter = NewLimiter(MaxRateLimit)
    /\ api = NoDoc
    /\ decoding = IdleDecoding
    /\ initializing = NotInitializing
    /\ timers = NoTimers

\* what initializeScanProgress of the instances leaves alone
notInitializing == <<config, durable, isScanning, scanInterval, startPc, call,
                     stopped, stats, peer, http, decoding, timers>>

\* instance i calls initializeScanProgress
InitializeCall(i) ==
    /\ initializing.pc[i] \in {"idle", "done", "failed", "duplicate"}
    /\ initializing' = [initializing EXCEPT !.pc[i] = "find"]
    /\ UNCHANGED notInitializing

\* ScanProgressModel.findOne({ chain }) of instance i
InitializeFind(i) ==
    /\ initializing.pc[i] = "find"
    /\ \E dbOk \in BOOLEAN :
         initializing' = [initializing EXCEPT !.pc[i] =
             IF ~dbOk THEN "failed"
             ELSE IF initializing.records # << >> THEN "done" ELSE "create"]
    /\ UNCHANGED notInitializing

\* ScanProgressModel.create({...}) of instance i
InitializeCreate(i) ==
    /\ initializing.pc[i] = "create"
    /\ \E dbOk \in BOOLEAN, date \in Times :
         initializing' =
             IF ~dbOk THEN [initializing EXCEPT !.pc[i] = "failed"]
             ELSE IF ChainIndexRejects(initializing.records)
             THEN [initializing EXCEPT !.pc[i] = "duplicate"]
             ELSE [initializing EXCEPT !.pc[i] = "done",
                                       !.records = Append(@, SeedProgress(date))]
    /\ UNCHANGED notInitializing

NextInitialize ==
    \/ \E i \in Instances : InitializeCall(i)
    \/ \E i \in Instances : InitializeFind(i)
    \/ \E i \in Instances : InitializeCreate(i)

InitializeSpec == InitInitialize /\ [][NextInitialize]_vars

----------------------------------------------------------------------------
(* Properties *)

\* every log entry of block b that decodes has a record in the collection
BlockStored(b) ==
    \A i \in 1..Len(LogsOfBlock(b)) :
        LogsOfBlock(b)[i].decodes => HasKey(feeEvents, KeyOf(LogsOfBlock(b)[i]))

\* the number of stored records with key k
RecordsWithKey(k) ==
    LET S == {d \in BagToSet(feeEvents) : KeyOf(d) = k}
        RECURSIVE Sum(_)
        Sum(T) == IF T = {} THEN 0
                  ELSE LET d == CHOOSE x \in T : TRUE
                       IN CopiesIn(d, feeEvents) + Sum(T \ {d})
    IN Sum(S)

StoredKeys == {KeyOf(d) : d \in BagToSet(feeEvents)}

\* C1: with maxRetries >= 1 (batchSize >= 1 throughout), every block from
\* the configured start block up to the stored lastScannedBlock has all its
\* decodable log entries in the event collection, in every reachable state,
\* whatever failed and wherever the process crashed.
C1_ProgressOnlyPastStoredBlocks ==
    (maxRetries >= 1 /\ scanProgress # NoDoc) =>
        \A b \in StartBlock..scanProgress.lastScannedBlock : BlockStored(b)

\* the whole chain was scanned by a cycle that met failures
C1_Witness ==
    /\ maxRetries >= 1
    /\ scanProgress # NoDoc
    /\ scanProgress.lastScannedBlock = MaxBlock
    /\ StoredKeys # {}
    /\ \E c \in Callers : call[c].pc = "done" /\ call[c].failed = "fault"

\* C2: the stored lastScannedBlock never decreases, and a stored progress
\* record never disappears, in any step of the scanner (scan cycles that
\* succeed or fail, any height returned, start() and restarts).
C2_ProgressMonotonic ==
    [][scanProgress # NoDoc =>
         /\ scanProgress' # NoDoc
         /\ scanProgress'.lastScannedBlock >= scanProgress.lastScannedBlock]_vars

\* a cycle read a height below the stored progress
C2_Witness ==
    \E c \in Callers :
        /\ call[c].pc = "done"
        /\ call[c].outcome = "uptodate"
        /\ scanProgress # NoDoc
        /\ call[c].currentBlock < scanProgress.lastScannedBlock

\* C3: the collection holds at most one record per (transactionHash,
\* logIndex), and no batch ever fails because one of its events is already
\* stored.
C3_OneRecordPerKey ==
    /\ \A k \in StoredKeys : RecordsWithKey(k) = 1
    /\ \A c \in Callers : call[c].failed # "duplicate"

\* a batch was stored although some of its events were already there
C3_Witness ==
    \E c \in Callers : call[c].pc = "save" /\ call[c].duplicates > 0

\* C4: at most one activation of scanForNewEvents is past the guard; an
\* invocation made while one is in flight settles at once as skipped, having
\* fetched nothing and changed neither the database nor the flag nor the
\* activation in flight, and the skipped call never starts scanning.
C4_OneScanAtATime ==
    [][/\ Cardinality({c \in Callers : call'[c].pc \in ActivePcs}) <= 1
       /\ \A c \in Callers :
            /\ (call[c].pc = "idle" /\ call'[c].pc # "idle"
                    /\ \E d \in Callers : InFlight(d))
                 => /\ call'[c] = Settle(IdleCall, "skipped")
                    /\ call'[c].fetched = << >>
                    /\ call'[c].heightAttempt = 0
                    /\ UNCHANGED <<durable, isScanning>>
                    /\ \A d \in Callers \ {c} : call'[d] = call[d]
            /\ (call[c].pc = "done" /\ call[c].outcome = "skipped")
                 => call'[c].pc \in {"done", "idle"}]_vars

\* a call was rejected while another activation was in flight
C4_Witness ==
    \E c, d \in Callers :
        /\ call[c].pc = "done" /\ call[c].outcome = "skipped"
        /\ InFlight(d)


\* C5 (as claimed, for every maxRetries >= 0): once the first attempt and
\* every retry of a batch [from, to] have failed, the call has settled with
\* an error, [from, to] is the last range it fetched and the stored
\* lastScannedBlock is from - 1.
C5_ExhaustedRetriesPropagate ==
    \A c \in Callers :
        call[c].exhausted =>
            /\ call[c].pc = "done"
            /\ call[c].outcome = "error"
            /\ call[c].fetched # << >>
            /\ call[c].fetched[Len(call[c].fetched)] = <<call[c].fromBlock, call[c].toBlock>>
            /\ scanProgress # NoDoc
            /\ scanProgress.lastScannedBlock = call[c].fromBlock - 1

\* the same statement for maxRetries >= 1
C5_HoldsWithOneRetry == maxRetries >= 1 => C5_ExhaustedRetriesPropagate

\* the batches a cycle from progress P to height H makes with batch size B
ExpectedBatches(P, H, B) ==
    [k \in 1..((H - P + B - 1) \div B) |->
        <<P + 1 + (k - 1) * B, Min(P + k * B, H)>>]

\* C6: the first range a cycle fetches starts at the stored lastScannedBlock
\* + 1 (at the configured start block when nothing was scanned yet), and no
\* range of the cycle starts at or below the progress it began with; this
\* in every reachable state, so after failed cycles and after crashes.
C6_ResumesAfterProgress ==
    \A c \in Callers :
        /\ (call[c].pc = "fetch" /\ call[c].fetched = << >>) =>
              /\ scanProgress # NoDoc
              /\ call[c].fromBlock = scanProgress.lastScannedBlock + 1
              /\ scanProgress.totalBlocksScanned = 0 => call[c].fromBlock = StartBlock
        /\ \A i \in 1..Len(call[c].fetched) : call[c].fetched[i][1] > call[c].p0

\* a cycle that resumes from earlier progress is about to fetch
C6_Witness ==
    \E c \in Callers :
        /\ call[c].pc = "fetch" /\ call[c].fetched = << >>
        /\ scanProgress.lastScannedBlock >= StartBlock

\* C7: in a cycle without failure the ranges fetched are, in order, the
\* ranges [P+1+k*B, min(P+(k+1)*B, H)], k = 0, 1, ...: a prefix of them
\* while the cycle runs and all of them when it has completed.
C7_BatchPartition ==
    \A c \in Callers :
        LET r == call[c]
            E == ExpectedBatches(r.p0, r.currentBlock, batchSize)
        IN /\ (r.failed = "no" /\ r.fetched # << >>) =>
                /\ Len(r.fetched) <= Len(E)
                /\ \A i \in 1..Len(r.fetched) : r.fetched[i] = E[i]
           /\ (r.failed = "no" /\ r.pc = "done" /\ r.outcome = "ok") =>
                r.fetched = E

\* a cycle without failure completed in two batches, the second shorter
C7_Witness ==
    \E c \in Callers :
        /\ call[c].pc = "done" /\ call[c].outcome = "ok" /\ call[c].failed = "no"
        /\ Len(call[c].fetched) = 2
        /\ call[c].fetched[2][2] - call[c].fetched[2][1] < call[c].fetched[1][2] - call[c].fetched[1][1]

\* the step in which getCurrentBlockNumber returns a height to activation c
HeightRead(c) ==
    /\ call[c].pc = "getHeight"
    /\ \/ call'[c].pc = "fetch"
       \/ call'[c].pc = "done" /\ call'[c].outcome # "error"

\* C8: when the height read is not above the stored lastScannedBlock, the
\* call returns having fetched no range and the database (the progress
\* record with its counters and lastScanTime, and the events) is unchanged.
C8_UpToDateChangesNothing ==
    [][\A c \in Callers :
         (HeightRead(c) /\ call[c].progress.lastScannedBlock >= call'[c].currentBlock)
            => /\ call'[c].pc = "done"
               /\ call'[c].fetched = << >>
               /\ UNCHANGED durable]_vars

\* a cycle found the chain no higher than progress that had advanced
C8_Witness ==
    \E c \in Callers :
        /\ call[c].pc = "done" /\ call[c].outcome = "uptodate"
        /\ call[c].p0 >= StartBlock
        /\ call[c].p0 >= call[c].currentBlock

\* the step in which progress.save() resolves inside a retry
RetrySaved(c) ==
    /\ call[c].pc = "save"
    /\ call[c].inRetry
    /\ \/ call'[c].pc \in {"fetch", "delay"}
       \/ call'[c].pc = "done" /\ call'[c].outcome = "ok"

\* C9: when a retry of batch [from, to] succeeds, the events of [from, to]
\* are stored, the stored lastScannedBlock becomes to, and the cycle goes on
\* with the batch starting at to + 1 or, after the last batch, returns
\* without error; a cycle that fetched only throws when retries ran out.
C9_RetrySuccessAdvances ==
    [][\A c \in Callers :
         /\ RetrySaved(c) =>
              /\ scanProgress'.lastScannedBlock = call[c].toBlock
              /\ \A b \in call[c].fromBlock..call[c].toBlock : BlockStored(b)
              /\ call'[c].pc # "done" =>
                    /\ call'[c].fromBlock = call[c].toBlock + 1
                    /\ call'[c].fromBlock <= call[c].currentBlock
                    /\ ~call'[c].inRetry
              /\ call'[c].pc = "done" => call[c].toBlock = call[c].currentBlock
         /\ (call'[c].pc = "done" /\ call'[c].outcome = "error"
                /\ call'[c].fetched # << >>) => call'[c].exhausted]_vars

\* a cycle completed without error after a batch had failed and been retried
C9_Witness ==
    \E c \in Callers :
        /\ maxRetries >= 1
        /\ call[c].pc = "done" /\ call[c].outcome = "ok"
        /\ call[c].failed = "fault"
        /\ Len(call[c].fetched) >= 2

\* a step of initializeScanProgress inside start()
InitializeStep ==
    /\ startPc \in {"initFind", "initCreate"}
    /\ startPc' \notin {startPc, "none"}

\* C10: initializeScanProgress creates, where there is no progress record,
\* one with lastScannedBlock = startBlock - 1 and both counters 0, and
\* leaves an existing record as it is; when it has succeeded a record exists.
C10_InitializeSeedsOnce ==
    [][InitializeStep =>
         /\ IF scanProgress = NoDoc
            THEN \/ scanProgress' = NoDoc
                 \/ /\ scanProgress'.lastScannedBlock = StartBlock - 1
                    /\ scanProgress'.totalEventsFound = 0
                    /\ scanProgress'.totalBlocksScanned = 0
                    /\ scanProgress'.lastScanTime \in Times
            ELSE scanProgress' = scanProgress
         /\ startPc' = "scan1" => scanProgress' # NoDoc]_vars

\* start() has initialized over a record whose progress had advanced
C10_Witness ==
    /\ startPc = "scan1"
    /\ scanProgress # NoDoc
    /\ scanProgress.lastScannedBlock >= StartBlock


\* C11: a scan cycle that has set isScanning eventually clears it, when every
\* remote call, database call and delay of the cycle eventually completes
\* (batchSize >= 1 throughout): it returns, returns early, or throws.
C11_ScanTerminates == isScanning ~> ~isScanning

\* a cycle threw after its retries ran out and the flag is clear
C11_Witness ==
    /\ ~isScanning
    /\ \E c \in Callers :
         call[c].pc = "done" /\ call[c].outcome = "error" /\ call[c].exhausted


\* C12 (as claimed): when validateContract reports no code at the address or
\* cannot reach the endpoint, start() ends in an error its caller observes.
C12_InvalidContractRejects ==
    startPc = "invalid" => StartSettled = "rejected"

\* C13 (as claimed): once stop() was called the instance never begins a scan
\* cycle again.
C13_StoppedNeverScans ==
    [][stopped => ~(~isScanning /\ isScanning')]_vars

\* C14 (as claimed): once stop() was called the timer callback never starts
\* a scan, also when stop() came while start() awaited its first scans.
C14_StoppedTimerSilent ==
    [][stopped => ~(call["timer"].pc = "idle" /\ call'["timer"].pc # "idle")]_vars


\* C15 (as claimed): the count a stored batch adds to totalEventsFound is
\* the number of records the batch newly inserted.
C15_CountsNewRecords ==
    [][\A c \in Callers :
         (call[c].pc = "store" /\ call'[c].pc = "save") =>
            call'[c].progress.totalEventsFound - call[c].progress.totalEventsFound
              = BagCardinality(feeEvents') - BagCardinality(feeEvents)]_vars

\* C16 (as claimed): with two scanner processes on one progress record the
\* stored lastScannedBlock never decreases.
C16_TwoInstancesMonotonic ==
    [][scanProgress # NoDoc =>
         scanProgress'.lastScannedBlock >= scanProgress.lastScannedBlock]_vars


\* C17: getStats changes nothing but its own activation (not the instance,
\* not a stored record), and what it returns is the stored progress record's
\* lastScannedBlock, totalEventsFound (as totalEvents), totalBlocksScanned
\* (as totalBlocks), lastScanTime (as lastScan) and chain, with isScanning
\* equal to the guard flag, all as they are when it produces its answer.
C17_StatsSnapshot ==
    [][/\ (stats.pc = "find" /\ stats'.pc = "returned") =>
            stats'.result =
              [stats |-> [chain |-> ChainName,
                          lastScannedBlock |-> scanProgress.lastScannedBlock,
                          totalEvents |-> scanProgress.totalEventsFound,
                          totalBlocks |-> scanProgress.totalBlocksScanned,
                          lastScan |-> scanProgress.lastScanTime],
               isScanning |-> isScanning]
       /\ stats' # stats =>
            UNCHANGED <<config, durable, isScanning, scanInterval, startPc,
                        call, stopped, peer, http, decoding, initializing, timers>>]_vars

\* getStats answered during a scan that had advanced, with counters that
\* differ
C17_Witness ==
    /\ stats.pc = "returned"
    /\ stats.result.isScanning
    /\ stats.result.stats.lastScannedBlock >= StartBlock
    /\ stats.result.stats.totalEvents # stats.result.stats.totalBlocks


\* the requests of client ip passed on at a time in [t, t + WindowMs)
PassedWithin(ip, t) ==
    {i \in 1..Len(limiter.passed[ip]) :
        t <= limiter.passed[ip][i] /\ limiter.passed[ip][i] < t + WindowMs}

\* C18 (as claimed): for every client and every interval of 60 seconds, at
\* most API_RATE_LIMIT requests of the client in that interval are passed on.
C18_AtMostLimitPerMinute ==
    \A ip \in ClientIps :
        \A i \in 1..Len(limiter.passed[ip]) :
            Cardinality(PassedWithin(ip, limiter.passed[ip][i])) <= limiter.maxRequests

\* what does hold: at most API_RATE_LIMIT requests are passed on in the
\* window the middleware is counting, which began with a request of the client
C18_HoldsPerCountedWindow ==
    \A ip \in ClientIps :
        limiter.clients[ip] # NoDoc =>
            Cardinality(PassedWithin(ip, limiter.clients[ip].resetTime - WindowMs))
                <= limiter.maxRequests


\* a successful answer of either list route
ListAnswered == api.route # "none" /\ api.response.status = 200

\* the page and the limit a request asks for; absent ones are 1 and 50
AskedPage == IF api.request.page.set THEN api.request.page.value ELSE 1
AskedLimit == IF api.request.limit.set THEN api.request.limit.value ELSE DefaultLimit

\* the documents the handler's query selects
Filtered ==
    IF api.route = "getEvents"
    THEN find(api.store, buildQuery(api.request))
    ELSE {e \in api.store : e.integrator = toLowerCase(api.request.integrator)}

\* the response is page p of limit l over the filtered, sorted result
IsPage(p, l) ==
    LET total == Cardinality(Filtered)
    IN /\ api.response.pagination =
            [page |-> p, limit |-> l, total |-> total,
             pages |-> IF total % l = 0 THEN total \div l ELSE total \div l + 1]
       /\ Len(api.response.data) = Max(0, Min(p * l, total) - (p - 1) * l)
       /\ IsSliceOf(api.response.data, Filtered, (p - 1) * l)

\* C20: for page p >= 1 and limit l >= 1 the response holds the items
\* (p-1)*L+1 .. min(p*L, total) of the filtered, sorted result and reports
\* {page: p, limit: L, total, pages: ceil(total/L)}, where L is l up to 100
\* and 100 above it
C20_PageOfResult ==
    (ListAnswered /\ AskedPage >= 1 /\ AskedLimit >= 1)
        => IsPage(AskedPage, Min(AskedLimit, LimitCap))

\* C20 as stated: the response reports and serves limit l itself
C20_PageOfResultAnyLimit ==
    (ListAnswered /\ AskedPage >= 1 /\ AskedLimit >= 1)
        => IsPage(AskedPage, AskedLimit)

\* page 2 of limit 2 over three events of an integrator: one item, two pages
C20_Witness ==
    /\ api.route = "getEventsByIntegrator"
    /\ api.response.status = 200
    /\ api.request.page = Some(2)
    /\ api.request.limit = Some(2)
    /\ api.response.pagination.total = 3
    /\ Len(api.response.data) = 1
    /\ api.response.pagination.pages = 2


\* the request is answered with at most min(limit, 100) events, and its page
\* and limit are at least 1
AnsweredWithinLimit ==
    /\ api.response.status = 200
    /\ AskedPage >= 1
    /\ AskedLimit >= 1
    /\ Len(api.response.data) <= Min(AskedLimit, LimitCap)

\* C21 (as claimed): on both list routes every request is either rejected
\* with status 400 or answered with at most min(limit, 100) events, and no
\* request with a page below 1 or a limit below 1 is answered.
C21_RejectsOrWithinLimit ==
    api.route # "none" => (api.response.status = 400 \/ AnsweredWithinLimit)

\* the same statement for GET /api/events alone, which validates its query:
\* holds
C21_HoldsOnGetEvents ==
    api.route = "getEvents" => (api.response.status = 400 \/ AnsweredWithinLimit)


\* C22: the wait after the k-th failed retry attempt, 1 <= k < maxRetries,
\* is retryDelayMs * 2^(k-1); the attempt after the wait and every step of a
\* retry keep the interval [from, to]; the failed attempt number maxRetries
\* is followed by no wait.
C22_BackoffSchedule ==
    [][\A c \in Callers :
         LET r == call[c]
             n == call'[c]
         IN /\ (r.pc # "retryWait" /\ n.pc = "retryWait") =>
                  /\ r.inRetry
                  /\ 1 <= r.attempt /\ r.attempt < maxRetries
                  /\ n.attempt = r.attempt
                  /\ n.lastDelay = RetryDelayMs * Pow2(r.attempt - 1)
            /\ (r.pc = "retryWait" /\ n # r) =>
                  /\ n.pc = "fetch"
                  /\ n.attempt = r.attempt + 1
            /\ (r.inRetry /\ n.inRetry) =>
                  /\ n.fromBlock = r.fromBlock
                  /\ n.toBlock = r.toBlock
            /\ (r.inRetry /\ r.attempt = maxRetries) => n.pc # "retryWait"]_vars

\* the third retry attempt failed and the cycle waits four times the base
\* delay
C22_Witness ==
    \E c \in Callers :
        /\ call[c].pc = "retryWait"
        /\ call[c].attempt = 3
        /\ call[c].lastDelay = 4 * RetryDelayMs


\* the awaits of one batch: its fetch, its decoding, its insert and the save
\* of its progress
BatchPcs == {"fetch", "parse", "store", "save"}

\* every batch of the cycle of c before the one starting at its fromBlock
\* has its events inserted and its progress saved
EarlierBatchesDone(c) ==
    /\ scanProgress # NoDoc
    /\ scanProgress.lastScannedBlock = call[c].fromBlock - 1
    /\ \A b \in (call[c].p0 + 1)..(call[c].fromBlock - 1) : BlockStored(b)

\* at most one batch is in flight, and every batch before it is done
BatchesInOrder ==
    /\ Cardinality({c \in Callers : call[c].pc \in BatchPcs}) <= 1
    /\ \A c \in Callers : call[c].pc \in BatchPcs => EarlierBatchesDone(c)

EmptyBatch(c) == queryFilter(call[c].fromBlock, call[c].toBlock) = << >>

\* C24: a batch whose fetch returns no entries goes on to the save of its
\* progress with nothing inserted, 0 added to totalEventsFound, to - from + 1
\* added to totalBlocksScanned and lastScannedBlock = to, and the save that
\* succeeds stores exactly that record.
C24_EmptyBatchAdvances ==
    [][\A c \in Callers :
         LET r == call[c]
             n == call'[c]
         IN /\ (r.pc = "fetch" /\ EmptyBatch(c) /\ n.pc \in BatchPcs /\ n # r) =>
                  /\ n.pc \in {"save", "fetch"}
                  /\ feeEvents' = feeEvents
            /\ (r.pc = "fetch" /\ n.pc = "save") =>
                  /\ EmptyBatch(c)
                  /\ feeEvents' = feeEvents
                  /\ n.progress.totalEventsFound = r.progress.totalEventsFound
                  /\ n.progress.totalBlocksScanned =
                        r.progress.totalBlocksScanned + (r.toBlock - r.fromBlock + 1)
                  /\ n.progress.lastScannedBlock = r.toBlock
            /\ (r.pc = "save" /\ EmptyBatch(c)) =>
                  /\ feeEvents' = feeEvents
                  /\ scanProgress' # scanProgress =>
                        /\ scanProgress' = r.progress
                        /\ scanProgress'.lastScannedBlock = r.toBlock]_vars

\* a cycle without failure whose last batch was empty has saved its progress
C24_Witness ==
    \E c \in Callers :
        /\ call[c].pc = "done" /\ call[c].outcome = "ok" /\ call[c].failed = "no"
        /\ call[c].fetched # << >>
        /\ LET last == call[c].fetched[Len(call[c].fetched)]
           IN /\ queryFilter(last[1], last[2]) = << >>
              /\ scanProgress.lastScannedBlock = last[2]
              /\ scanProgress.totalBlocksScanned = last[2] - StartBlock + 1


\* the keys of the entries of events that decode
DecodableKeys(events) ==
    {KeyOf(events[i]) : i \in {j \in 1..Len(events) : events[j].decodes}}

\* C25: decoding never fails a batch.  The entries that decode, and only
\* they, go on to the insert; when the insert has succeeded each of them has
\* a record; and the batch goes on to save lastScannedBlock = to, also when
\* no entry of the batch decodes.
C25_DecodeFailuresSkipped ==
    [][\A c \in Callers :
         LET r == call[c]
             n == call'[c]
         IN /\ (r.pc = "parse" /\ n # r /\ n.pc # "idle") =>
                  /\ n.pc \in {"store", "save"}
                  /\ n.failed = r.failed
                  /\ n.pc = "store" =>
                        /\ Len(n.parsedEvents) = Cardinality(DecodableKeys(r.events))
                        /\ {KeyOf(n.parsedEvents[i]) : i \in 1..Len(n.parsedEvents)}
                              = DecodableKeys(r.events)
                  /\ n.pc = "save" =>
                        /\ DecodableKeys(r.events) = {}
                        /\ n.progress.lastScannedBlock = r.toBlock
                        /\ n.progress.totalEventsFound = r.progress.totalEventsFound
            /\ (r.pc = "store" /\ n.pc = "save") =>
                  /\ \A k \in DecodableKeys(queryFilter(r.fromBlock, r.toBlock)) :
                        HasKey(feeEvents', k)
                  /\ n.progress.lastScannedBlock = r.toBlock]_vars

\* block 1 has an entry that does not decode between two that do, block 2
\* has only an entry that does not decode: both were scanned, one block a
\* batch, and the two decodable entries are what is stored
C25_Witness ==
    /\ batchSize = MaxBatchSize
    /\ scanProgress # NoDoc
    /\ scanProgress.lastScannedBlock >= 2
    /\ StoredKeys = {<<1, 0>>, <<1, 2>>}
    /\ \E c \in Callers : call[c].failed = "no" /\ Len(call[c].fetched) >= 2


\* the step in which insertMany settles for activation c
InsertSettles(c) ==
    /\ call[c].pc = "store"
    /\ call'[c] # call[c]
    /\ call'[c].pc # "idle"

\* C26: when the bulk insert settles, either the batch goes on to save its
\* progress, and then every record of the call is in the collection, the
\* colliding ones skipped and the others newly inserted, or the insert failed
\* with an error that is not a duplicate-key collision, and then the batch
\* has failed and the retry policy takes over: the first retry attempt, the
\* backoff wait before the next one, or the error thrown after the last.
C26_DuplicatesPassOthersRetry ==
    [][\A c \in Callers :
         LET r == call[c]
             n == call'[c]
         IN InsertSettles(c) =>
              IF n.pc = "save"
              THEN /\ \A i \in 1..Len(r.parsedEvents) :
                         HasKey(feeEvents', KeyOf(r.parsedEvents[i]))
                   /\ BagCardinality(feeEvents') - BagCardinality(feeEvents)
                         = Cardinality({KeyOf(r.parsedEvents[i]) : i \in 1..Len(r.parsedEvents)}
                                        \ StoredKeys)
                   /\ n.failed = r.failed
              ELSE /\ n.failed = "fault"
                   /\ (~r.inRetry /\ maxRetries >= 1) =>
                         /\ n.pc = "fetch" /\ n.inRetry /\ n.attempt = 1
                         /\ n.fromBlock = r.fromBlock /\ n.toBlock = r.toBlock
                   /\ (r.inRetry /\ r.attempt < maxRetries) =>
                         /\ n.pc = "retryWait"
                         /\ n.fromBlock = r.fromBlock /\ n.toBlock = r.toBlock
                   /\ (r.inRetry /\ r.attempt = maxRetries) =>
                         /\ n.pc = "done" /\ n.outcome = "error"]_vars

\* an insert met one record already stored and one new, and the batch went on
C26_Witness ==
    \E c \in Callers :
        /\ call[c].pc = "save"
        /\ call[c].duplicates = 1
        /\ call[c].fromBlock = 1
        /\ StoredKeys = {<<1, 0>>, <<1, 2>>}
        /\ call[c].failed = "fault"


\* a step of stop()
StopStep == stopped' /\ (~stopped \/ (scanInterval /\ ~scanInterval'))

\* C27: stop() changes neither the guard flag nor the progress record nor
\* the events nor the cycle in flight, and a cycle in flight when the
\* instance is stopped goes on until it settles and clears the flag.
C27_StopLeavesCycleRunning ==
    /\ [][StopStep => UNCHANGED <<isScanning, scanProgress, feeEvents, call>>]_vars
    /\ (stopped /\ isScanning) ~> (stopped /\ ~isScanning)

\* the cycle the timer started was in flight when stop() was called, and it
\* has completed with its progress saved and the flag clear
C27_Witness ==
    /\ stopped
    /\ ~isScanning
    /\ call["timer"].pc = "done"
    /\ call["timer"].outcome = "ok"
    /\ scanProgress.lastScannedBlock >= StartBlock
    /\ scanProgress.lastScannedBlock > call["timer"].p0


\* C28: the height fetch fails an activation only at its third failed
\* attempt; the activation then settles with an error having fetched no
\* batch and entered no retry, with the database unchanged and the guard
\* flag false.  An earlier failed attempt leaves it fetching the height.
C28_HeightFailureEndsCycle ==
    [][\A c \in Callers :
         LET r == call[c]
             n == call'[c]
         IN /\ (r.pc = "getHeight" /\ n.pc = "getHeight" /\ n # r) =>
                  /\ n.heightAttempt = r.heightAttempt + 1
                  /\ n.heightAttempt < 3
                  /\ UNCHANGED <<durable, isScanning>>
            /\ (r.pc = "getHeight" /\ n.pc = "done" /\ n.outcome = "error") =>
                  /\ n.heightAttempt = 3
                  /\ n.fetched = << >>
                  /\ ~n.inRetry /\ n.attempt = 0 /\ ~n.exhausted
                  /\ n.failed = "no"
                  /\ UNCHANGED durable
                  /\ ~isScanning']_vars

\* the height fetch failed three times over progress that had advanced
C28_Witness ==
    \E c \in Callers :
        /\ call[c].pc = "done" /\ call[c].outcome = "error"
        /\ call[c].heightAttempt = 3
        /\ call[c].fetched = << >>
        /\ ~isScanning
        /\ scanProgress.lastScannedBlock >= StartBlock


\* entry i of the batch being decoded has its event among the decoded ones,
\* with its key, stamped with the block's time or, when the block could not
\* be read, with the clock
DecodedWithTimestamp(d, i) ==
    \E j \in 1..Len(d.parsedEvents) :
        /\ KeyOf(d.parsedEvents[j]) = KeyOf(d.events[i])
        /\ d.parsedEvents[j].timestamp =
              IF d.blockOk[i] THEN d.events[i].blockNumber * 1000 ELSE d.clock[i]

\* C29: a timestamp that cannot be fetched fails neither the entry nor the
\* batch: every entry that decodes yields an event with its own
\* (transactionHash, logIndex), stamped with the wall clock where the block's
\* time is unavailable, and the insert stores it unless a record with that
\* key is already there.
C29_TimestampFallback ==
    [][/\ (decoding.pc = "idle" /\ decoding' # decoding) =>
            /\ decoding'.pc = "parsed"
            /\ Len(decoding'.parsedEvents) = Cardinality(DecodableKeys(decoding'.events))
            /\ \A i \in 1..Len(decoding'.events) :
                  decoding'.events[i].decodes => DecodedWithTimestamp(decoding', i)
       /\ (decoding.pc = "parsed" /\ decoding' # decoding) =>
            /\ decoding'.pc = "stored"
            /\ \A j \in 1..Len(decoding.parsedEvents) :
                  \/ HasKey(feeEvents, KeyOf(decoding.parsedEvents[j]))
                  \/ CopiesIn(decoding.parsedEvents[j], feeEvents') = 1]_vars

\* a batch was stored with one event stamped by the clock and one by its block
C29_Witness ==
    /\ decoding.pc = "stored"
    /\ \E i, j \in 1..Len(decoding.events) :
         /\ decoding.events[i].decodes /\ ~decoding.blockOk[i]
         /\ decoding.events[j].decodes /\ decoding.blockOk[j]
    /\ \E d \in BagToSet(feeEvents) : d.timestamp \in WallClock
    /\ \E d \in BagToSet(feeEvents) : d.timestamp = BlockTimeMs(d.blockNumber)


\* the order in which start() goes through its two scans and the timer
StartOrder ==
    {<<"scan1", "await1">>, <<"await1", "scan2">>, <<"scan2", "await2">>,
     <<"await2", "timer">>, <<"timer", "started">>}

BeginsBatch(c) ==
    /\ call'[c].pc = "fetch"
    /\ ~call'[c].inRetry
    /\ call'[c] # call[c]

\* C31 (as claimed): every batch after the first of a cycle is fetched out
\* of the politeness delay, whether the batch before it succeeded at its
\* first attempt or in a retry, and the delay is entered only when another
\* batch follows.
C31_DelayBetweenBatches ==
    [][\A c \in Callers :
         /\ BeginsBatch(c) =>
              \/ call[c].pc = "getHeight"
              \/ call[c].pc = "delay" /\ call[c].lastDelay = BatchDelayMs
         /\ call'[c].pc = "delay" => call'[c].fromBlock <= call'[c].currentBlock]_vars

\* the same statement for batches that follow a batch of a cycle in which
\* nothing has failed: holds
C31_HoldsWithoutFailure ==
    [][\A c \in Callers :
         /\ (BeginsBatch(c) /\ call'[c].failed = "no") =>
              \/ call[c].pc = "getHeight"
              \/ call[c].pc = "delay" /\ call[c].lastDelay = BatchDelayMs
         /\ call'[c].pc = "delay" => call'[c].fromBlock <= call'[c].currentBlock]_vars


\* the awaits of a cycle after the height was read
AfterHeightPcs == ActivePcs \ {"getProgress", "getHeight"}

C33_OneProgressRecordPerChain ==
    /\ Len(initializing.records) <= 1
    /\ \A i \in Instances : initializing.pc[i] = "done" => Len(initializing.records) = 1

\* two instances found no record and both went on to create one: the first
\* created it, the second was rejected by the unique index
C33_Witness ==
    \E i, j \in Instances :
        /\ initializing.pc[i] = "done"
        /\ initializing.pc[j] = "duplicate"
        /\ Len(initializing.records) = 1


\* C34: when validateContract returns false, start() returns having changed
\* nothing: no progress record is created, no scan is invoked by start() or
\* by a timer, so no height or batch is fetched for it, and no timer is set,
\* then or later.
C34_InvalidContractStartsNothing ==
    [][/\ (startPc # "invalid" /\ startPc' = "invalid") =>
            /\ startPc = "none"
            /\ UNCHANGED <<scanProgress, feeEvents, call, isScanning, scanInterval>>
       /\ startPc = "invalid" =>
            /\ startPc' \in {"invalid", "none"}
            /\ scanProgress = NoDoc => scanProgress' = NoDoc
       /\ startPc' = "invalid" =>
            /\ ~scanInterval'
            /\ call'["start"] = IdleCall
            /\ call'["timer"] = IdleCall]_vars

\* start() returned on an invalid contract: there is no progress record and
\* no timer, and a direct scan fails for want of a record
C34_Witness ==
    /\ startPc = "invalid"
    /\ scanProgress = NoDoc
    /\ ~scanInterval
    /\ call["direct"].pc = "done" /\ call["direct"].outcome = "error"


\* C35 (as claimed): every stored progress record has totalBlocksScanned =
\* lastScannedBlock - (startBlock - 1), whatever fetches, inserts and saves
\* failed and were retried.
C35_BlocksCountedOnce ==
    scanProgress # NoDoc =>
        scanProgress.totalBlocksScanned
            = scanProgress.lastScannedBlock - (StartBlock - 1)


\* ---------------------------------------------------------------------
\* start() and stop() called any number of times on one instance
\* ---------------------------------------------------------------------

InitTimers ==
    /\ batchSize = MaxBatchSize
    /\ maxRetries = MaxRetriesCfg
    /\ scanProgress = NoDoc
    /\ feeEvents = EmptyBag
    /\ isScanning = FALSE
    /\ scanInterval = FALSE
    /\ startPc = "none"
    /\ call = [c \in Callers |-> IdleCall]
    /\ stopped = FALSE
    /\ stats = IdleStats
    /\ peer = IdlePeer
    /\ limiter = NewLimiter(MaxRateLimit)
    /\ api = NoDoc
    /\ decoding = IdleDecoding
    /\ initializing = NotInitializing
    /\ timers = NoTimers

notTimers == <<config, durable, isScanning, scanInterval, startPc, call,
               stopped, stats, peer, http, decoding, initializing>>

\* start() is called: nothing in it looks at this.scanInterval or at an
\* earlier call
TimersStart(s) ==
    /\ timers.pc[s] \in {"idle", "started", "invalid", "failed"}
    /\ timers.created < MaxTimers
    /\ timers' = [timers EXCEPT !.pc[s] = "validate"]
    /\ UNCHANGED notTimers

\* start(): validateContract, and the return when the contract is not valid
TimersValidate(s) ==
    /\ timers.pc[s] = "validate"
    /\ \E isValid \in BOOLEAN :
         timers' = [timers EXCEPT !.pc[s] = IF isValid THEN "init" ELSE "invalid"]
    /\ UNCHANGED notTimers

\* start(): initializeScanProgress, whose error the outer catch logs
TimersInit(s) ==
    /\ timers.pc[s] = "init"
    /\ \E dbOk \in BOOLEAN :
         timers' = [timers EXCEPT !.pc[s] = IF dbOk THEN "scan1" ELSE "failed"]
    /\ UNCHANGED notTimers

\* start(): one of the two awaited scans, whose error is caught
TimersScan(s) ==
    /\ timers.pc[s] \in {"scan1", "scan2"}
    /\ timers' = [timers EXCEPT !.pc[s] =
                      IF timers.pc[s] = "scan1" THEN "scan2" ELSE "install"]
    /\ UNCHANGED notTimers

\* start(): this.scanInterval = setInterval(...)
TimersInstall(s) ==
    /\ timers.pc[s] = "install"
    /\ timers' = [timers EXCEPT !.pc[s] = "started",
                                !.created = @ + 1,
                                !.active = @ \cup {timers.created + 1},
                                !.handle = timers.created + 1]
    /\ UNCHANGED notTimers

\* stop(): clearInterval(this.scanInterval) when it is set
TimersStop ==
    /\ timers.handle # 0
    /\ timers' = [timers EXCEPT !.active = @ \ {timers.handle},
                                !.handle = 0]
    /\ UNCHANGED notTimers

NextTimers ==
    \/ \E s \in StartCalls : TimersStart(s)
    \/ \E s \in StartCalls : TimersValidate(s)
    \/ \E s \in StartCalls : TimersInit(s)
    \/ \E s \in StartCalls : TimersScan(s)
    \/ \E s \in StartCalls : TimersInstall(s)
    \/ TimersStop

TimerSpec == InitTimers /\ [][NextTimers]_vars

\* C36 (as claimed): one instance never has more than one periodic timer
\* active, whatever sequence of start() and stop() calls is made.
C36_AtMostOneTimer == Cardinality(timers.active) <= 1

\* the handle held in this.scanInterval is always an active timer, the one
\* installed last, so stop() clears that one and no other
C36_HandleIsLastTimer ==
    /\ timers.active \subseteq 1..timers.created
    /\ timers.handle # 0 => timers.handle \in timers.active
    /\ timers.handle \in {0, timers.created}



\* the process is started again: nothing of its memory is left
Restarted == startPc' = "none" /\ call' = [c \in Callers |-> IdleCall]

\* C37: a call of scanForNewEvents that the guard rejects leaves isScanning
\* true; the flag goes back to false only when the cycle that set it settles;
\* and while that cycle is in flight every further call is rejected as well.
C37_RejectedCallKeepsFlag ==
    [][/\ \A c \in Callers :
            (call[c].pc = "idle" /\ call'[c].pc = "done"
                /\ call'[c].outcome = "skipped") =>
                /\ isScanning /\ isScanning'
                /\ \A d \in Callers \ {c} : call'[d] = call[d]
       /\ (isScanning /\ ~isScanning') =>
            \/ Restarted
            \/ \E c \in Callers : /\ InFlight(c)
                                  /\ call'[c].pc = "done"
                                  /\ call'[c].outcome # "skipped"
       /\ isScanning =>
            /\ Cardinality({c \in Callers : InFlight(c)}) = 1
            /\ \A c \in Callers :
                 (call[c].pc = "idle" /\ call'[c].pc # "idle") =>
                     call'[c].pc = "done" /\ call'[c].outcome = "skipped"]_vars

\* a call was rejected while the cycle of another caller is in flight, and
\* the flag is still set
C37_Witness ==
    /\ call["direct"].pc = "done" /\ call["direct"].outcome = "skipped"
    /\ InFlight("timer") /\ call["timer"].fetched # << >>
    /\ isScanning


\* C38: scanForNewEvents called while the collection has no progress record
\* of the chain throws; it asks neither for the height nor for a batch,
\* creates no record, stores no event and leaves isScanning false.
C38_NoRecordNoScan ==
    [][\A c \in Callers :
         (call[c].pc = "getProgress" /\ scanProgress = NoDoc
             /\ call'[c] # call[c]) =>
             \/ Restarted
             \/ /\ call[c] = [IdleCall EXCEPT !.pc = "getProgress"]
                /\ call'[c] = Settle(IdleCall, "error")
                /\ ~isScanning'
                /\ UNCHANGED <<scanProgress, feeEvents>>]_vars

\* a direct call has thrown for want of a record before start() was called
C38_Witness ==
    /\ call["direct"].pc = "done" /\ call["direct"].outcome = "error"
    /\ call["direct"].fetched = << >> /\ call["direct"].heightAttempt = 0
    /\ scanProgress = NoDoc /\ feeEvents = EmptyBag
    /\ ~isScanning /\ startPc = "none"


\* ---------------------------------------------------------------------
\* the scanner configured with any integer SCAN_BATCH_SIZE
\* ---------------------------------------------------------------------

\* parseInt(process.env.SCAN_BATCH_SIZE || '10000', 10), used as it is
ConfiguredBatchSizes == MinBatchSize..MaxBatchSize

InitBatch ==
    /\ batchSize \in ConfiguredBatchSizes
    /\ maxRetries \in 1..MaxRetriesCfg
    /\ scanProgress = SeedProgress(0)
    /\ feeEvents = EmptyBag
    /\ isScanning = FALSE
    /\ scanInterval = TRUE
    /\ startPc = "started"
    /\ call = [c \in Callers |-> IdleCall]
    /\ stopped = FALSE
    /\ stats = IdleStats
    /\ peer = IdlePeer
    /\ limiter = NewLimiter(MaxRateLimit)
    /\ api = NoDoc
    /\ decoding = IdleDecoding
    /\ initializing = NotInitializing
    /\ timers = NoTimers

BatchSpec == InitBatch /\ [][NextDirect]_vars

\* the batch of activation c has been saved and the loop goes on or ends
BatchSucceeded(c) ==
    /\ call[c].pc = "save"
    /\ ~call'[c].inRetry
    /\ \/ call'[c].pc \in {"delay", "fetch"}
       \/ call'[c].pc = "done" /\ call'[c].outcome = "ok"

\* C39 (as claimed): whatever integer batchSize is configured, every batch
\* that succeeds leaves fromBlock strictly greater than it was, so a cycle
\* whose calls all succeed ends after finitely many fetches.
C39_BatchMovesForward ==
    [][\A c \in Callers :
         BatchSucceeded(c) => call'[c].fromBlock > call[c].fromBlock]_vars

\* with a batchSize of at least 1 every batch that succeeds moves fromBlock
\* past the batch
C39_HoldsForPositiveBatchSize ==
    [][\A c \in Callers :
         (batchSize >= 1 /\ BatchSucceeded(c)) =>
             call'[c].fromBlock = call[c].toBlock + 1
                 /\ call'[c].fromBlock > call[c].fromBlock]_vars


\* C40: a failure of either scan awaited in start(), or of a scan made by
\* the timer, is caught where the scan was called: start() goes on to the
\* next step, installs the timer and resolves, and after a failed timer scan
\* the timer is still installed.
C40_ScanFailuresCaught ==
    [][/\ (call["start"].pc = "done" /\ call'["start"].pc = "idle"
              /\ ~Restarted) =>
            /\ startPc \in {"await1", "await2"}
            /\ startPc' = (IF startPc = "await1" THEN "scan2" ELSE "timer")
            /\ UNCHANGED scanInterval
       /\ (startPc # "failed" /\ startPc' = "failed") =>
            startPc \in {"initFind", "initCreate"}
       /\ (startPc = "timer" /\ startPc' # "timer" /\ ~Restarted) =>
            startPc' = "started" /\ scanInterval'
       /\ (call["timer"].pc = "done" /\ call'["timer"].pc = "idle"
              /\ ~Restarted) =>
            UNCHANGED <<scanInterval, startPc>>]_vars

\* a scan made by the timer has thrown, start() has resolved and the timer
\* is installed
C40_Witness ==
    /\ call["timer"].pc = "done" /\ call["timer"].outcome = "error"
    /\ startPc = "started" /\ scanInterval
    /\ ~isScanning
====
